---- MODULE Spec2Model ----
(***************************************************************************)
(* MyGameList: the catalog aggregator / ranker of src/app/lib/igdbServer.js *)
(* (fetchIgdbGames, its two process-wide caches and its filters) and the    *)
(* GET route in front of it.                                                *)
(*                                                                          *)
(* Conventions.  A JavaScript value that may be null/undefined is an        *)
(* option: Null (the empty tuple) or Some(x) (a one-element tuple).  A      *)
(* string the code inspects character by character is a tuple of            *)
(* one-character strings.  A non-integer number (a mean, a weighted score)  *)
(* is an exact fraction [num, den] with den > 0; IEEE rounding is not       *)
(* modelled.  Time is counted in whole minutes.                             *)
(***************************************************************************)
EXTENDS Integers, Sequences, FiniteSets, TLC

----------------------------------------------------------------------------
(* Options and small helpers *)

Null == <<>>
Some(x) == <<x>>
IsNull(o) == o = <<>>
Val(o) == o[1]

\* g?.field : a missing field reads as undefined, which == null
Get(g, f) == IF f \in DOMAIN g THEN g[f] ELSE Null

\* the element of a one-element set: Only({ e(x) : x \in {v} }) is e with v
\* computed once and named x
Only(S) == CHOOSE x \in S : TRUE

\* a ?? b
Coalesce(a, b) == IF IsNull(a) THEN b ELSE a

Max(a, b) == IF a >= b THEN a ELSE b
Min(a, b) == IF a <= b THEN a ELSE b

RECURSIVE GCD(_, _)
GCD(a, b) == IF b = 0 THEN a ELSE GCD(b, a % b)

RECURSIVE FilterFrom(_, _, _)
FilterFrom(s, keep, i) ==
  IF i > Len(s) THEN <<>>
  ELSE (IF keep[i] THEN <<s[i]>> ELSE <<>>) \o FilterFrom(s, keep, i + 1)

\* s.filter((x, i) => keep[i]) with keep a function over the indices of s
FilterSeq(s, keep) == FilterFrom(s, keep, 1)

RECURSIVE Flatten(_)
Flatten(ss) == IF ss = <<>> THEN <<>> ELSE Head(ss) \o Flatten(Tail(ss))

----------------------------------------------------------------------------
(* Exact fractions *)

Frac(n, d) == [num |-> n, den |-> d]

\* a < b for fractions with positive denominators
FracLT(a, b) ==
  LET g == GCD(a.den, b.den)
  IN a.num * (b.den \div g) < b.num * (a.den \div g)

FracEQ(a, b) ==
  LET g == GCD(a.den, b.den)
  IN a.num * (b.den \div g) = b.num * (a.den \div g)

FracLE(a, b) == FracLT(a, b) \/ FracEQ(a, b)

\* |a - b| as a fraction
FracDist(a, b) ==
  LET n == a.num * b.den - b.num * a.den
  IN Frac(IF n < 0 THEN -n ELSE n, a.den * b.den)

----------------------------------------------------------------------------
(* Text: tuples of one-character strings *)

UPPER == <<"A","B","C","D","E","F","G","H","I","J","K","L","M",
           "N","O","P","Q","R","S","T","U","V","W","X","Y","Z">>
LOWER == <<"a","b","c","d","e","f","g","h","i","j","k","l","m",
           "n","o","p","q","r","s","t","u","v","w","x","y","z">>
DIGITS == {"0","1","2","3","4","5","6","7","8","9"}

UpperChars == {UPPER[i] : i \in 1..Len(UPPER)}
LowerOf == [c \in UpperChars |-> LOWER[CHOOSE i \in 1..Len(UPPER) : UPPER[i] = c]]
AlnumChars == {LOWER[i] : i \in 1..Len(LOWER)} \cup DIGITS

ToLowerChar(c) == IF c \in UpperChars THEN LowerOf[c] ELSE c

\* String.prototype.toLowerCase
ToLowerCase(t) == [i \in 1..Len(t) |-> ToLowerChar(t[i])]

\* \s
IsSpace(c) == c \in {" ", "\t", "\n"}

\* [a-z0-9]
IsAlnum(c) == c \in AlnumChars

RECURSIVE TrimLeft(_)
TrimLeft(t) == IF t # <<>> /\ IsSpace(Head(t)) THEN TrimLeft(Tail(t)) ELSE t

RECURSIVE TrimRight(_)
TrimRight(t) ==
  IF t # <<>> /\ IsSpace(t[Len(t)]) THEN TrimRight(SubSeq(t, 1, Len(t) - 1)) ELSE t

\* String.prototype.trim
Trim(t) == TrimRight(TrimLeft(t))

\* .replace(/\s+/g, " ")
CollapseSpaces(t) ==
  FilterSeq([i \in 1..Len(t) |-> IF IsSpace(t[i]) THEN " " ELSE t[i]],
            [i \in 1..Len(t) |-> ~(IsSpace(t[i]) /\ i > 1 /\ IsSpace(t[i - 1]))])

\* String.prototype.includes
Includes(h, k) ==
  \E i \in 0..(Len(h) - Len(k)) : SubSeq(h, i + 1, i + Len(k)) = k

\* Array.prototype.join(" ")
RECURSIVE JoinSpace(_)
JoinSpace(ts) ==
  IF ts = <<>> THEN <<>>
  ELSE IF Len(ts) = 1 THEN ts[1]
  ELSE ts[1] \o <<" ">> \o JoinSpace(Tail(ts))

----------------------------------------------------------------------------
(* Mature-content filter *)

DEFAULT_MATURE_KEYWORDS == <<
  <<"n","s","f","w">>,
  <<"p","o","r","n">>,
  <<"p","o","r","n","o">>,
  <<"p","o","r","n","o","g","r","a","p","h","i","c">>,
  <<"h","e","n","t","a","i">>,
  <<"e","c","c","h","i">>,
  <<"s","e","x">>,
  <<"s","e","x","u","a","l">>,
  <<"e","r","o","t","i","c">>,
  <<"e","r","o","t","i","c","a">>,
  <<"n","u","d","e">>,
  <<"n","u","d","i","t","y">>,
  <<"n","a","k","e","d">>,
  <<"x","x","x">>,
  <<"a","d","u","l","t">>,
  <<"f","e","t","i","s","h">>,
  <<"b","d","s","m">>,
  <<"p","e","r","v","e","r","t">> >>

ShortKeywordLen == 4

\* lower-case, collapse whitespace, trim
normalizeText(value) == Trim(CollapseSpaces(ToLowerCase(value)))

\* tokens.has(k) for tokens = new Set(h.split(/[^a-z0-9]+/g).filter(Boolean)):
\* k is a maximal run of [a-z0-9] characters of h
HasToken(h, k) ==
  /\ k # <<>>
  /\ \A x \in 1..Len(k) : IsAlnum(k[x])
  /\ \E i \in 1..(Len(h) - Len(k) + 1) :
       /\ SubSeq(h, i, i + Len(k) - 1) = k
       /\ (i = 1 \/ ~IsAlnum(h[i - 1]))
       /\ (i + Len(k) > Len(h) \/ ~IsAlnum(h[i + Len(k)]))

NormalizedKeywords(keywords) == [n \in 1..Len(keywords) |-> normalizeText(keywords[n])]

\* a variant that matches every keyword as a substring
containsMatureKeywordBySubstring(text, keywords) ==
  \E haystack \in {normalizeText(text)} :
    /\ haystack # <<>>
    /\ \E n \in 1..Len(keywords) :
         keywords[n] # <<>> /\ Includes(haystack, keywords[n])

containsMatureKeywordIn(text, keywords) ==
  \E haystack \in {normalizeText(text)} :
    /\ haystack # <<>>
    /\ \E n \in 1..Len(keywords) :
         LET k == keywords[n]
         IN /\ k # <<>>
            /\ IF Len(k) <= ShortKeywordLen
               THEN HasToken(haystack, k)
               ELSE Includes(haystack, k)

DefaultKeywordsNormalized == NormalizedKeywords(DEFAULT_MATURE_KEYWORDS)

containsMatureKeyword(text) == containsMatureKeywordIn(text, DefaultKeywordsNormalized)

\* game?.name ?? game?.title ?? "", game?.summary ?? "", tags.join(" ")
isMatureGame(game) ==
  LET title == Val(Coalesce(Get(game, "name"), Coalesce(Get(game, "title"), Some(<<>>))))
      summary == Val(Coalesce(Get(game, "summary"), Some(<<>>)))
      tags == JoinSpace(game.tags)
  IN \/ containsMatureKeyword(title)
     \/ containsMatureKeyword(summary)
     \/ containsMatureKeyword(tags)

----------------------------------------------------------------------------
(* Numbers that arrive from a URL: an integer, a non-integer n/d, NaN,     *)
(* Infinity or -Infinity                                                   *)

Num(n) == [k |-> "num", n |-> n]
NumF(n, d) == [k |-> "frac", n |-> n, d |-> d]
NaN == [k |-> "nan"]
PosInf == [k |-> "inf"]
NegInf == [k |-> "ninf"]

IsFinite(x) == x.k \in {"num", "frac"}

\* the value of a finite number as a fraction, and back
AsFrac(x) == IF x.k = "num" THEN Frac(x.n, 1) ELSE Frac(x.n, x.d)
FromFrac(f) ==
  IF f.num % f.den = 0 THEN Num(f.num \div f.den)
  ELSE LET g == GCD(IF f.num < 0 THEN -f.num ELSE f.num, f.den)
       IN NumF(f.num \div g, f.den \div g)

\* Number(x) || d : NaN and 0 become d, everything else stays
NumberOr(x, d) == IF x.k = "nan" \/ (x.k = "num" /\ x.n = 0) THEN d ELSE x

\* Number(x) || 0
NumberOrZero(x) == NumberOr(x, Num(0))

\* x < y for numbers other than NaN
NumLT(x, y) ==
  CASE x.k = "inf" \/ y.k = "ninf" -> FALSE
    [] x.k = "ninf" \/ y.k = "inf" -> TRUE
    [] OTHER -> FracLT(AsFrac(x), AsFrac(y))

\* Math.max(x, y) and Math.min(x, y) for numbers other than NaN
NumMax(x, y) == IF NumLT(x, y) THEN y ELSE x
NumMin(x, y) == IF NumLT(y, x) THEN y ELSE x

\* x + y for x finite or Infinity and y finite
NumAdd(x, y) ==
  IF x.k = "inf" THEN PosInf
  ELSE FromFrac(Frac(AsFrac(x).num * AsFrac(y).den + AsFrac(y).num * AsFrac(x).den,
                     AsFrac(x).den * AsFrac(y).den))

\* x * y for x finite or Infinity and y finite and positive
NumTimes(x, y) ==
  IF x.k = "inf" THEN PosInf
  ELSE FromFrac(Frac(AsFrac(x).num * AsFrac(y).num, AsFrac(x).den * AsFrac(y).den))

\* the relative index Array.prototype.slice makes of x >= 0 on an array of
\* length len: truncated, then clamped to len
SliceIndex(x, len) ==
  IF x.k = "inf" THEN len ELSE Min(AsFrac(x).num \div AsFrac(x).den, len)

\* x > 0
IsPositive(x) == x.k = "inf" \/ (IsFinite(x) /\ x.n > 0)

\* r < x for a finite fraction r
FracBelow(r, x) ==
  CASE x.k = "inf" -> TRUE
    [] x.k = "ninf" -> FALSE
    [] x.k = "nan" -> FALSE
    [] OTHER -> FracLT(r, AsFrac(x))

\* JSON.stringify of a number: a non-finite number is written as null
JsonNumber(x) == IF IsFinite(x) THEN Some(x) ELSE Null

\* Number(v) for v a nullable integer: Number(null) is 0
NumberOf(o) == IF IsNull(o) THEN 0 ELSE Val(o)

----------------------------------------------------------------------------
(* Program constants *)

IGDB_MAX_LIMIT_PER_REQUEST == 500
DEFAULT_PAGE_SIZE == 20
minVotes == 2000
\* 5 * 60_000 ms and 60_000 ms, in minutes
CACHE_TTL == 5
TOKEN_MARGIN == 1

----------------------------------------------------------------------------
(* Normalisation of upstream records *)

getIgdbImageUrl(imageId, size) == <<"https://images.igdb.com/igdb/image/upload", size, imageId>>

isMainGameRecord(game) ==
  IsNull(Get(game, "version_parent")) /\ IsNull(Get(game, "parent_game"))

filterToMainGames(games) ==
  Only({ FilterSeq(gs, [i \in 1..Len(gs) |-> isMainGameRecord(gs[i])]) : gs \in {games} })

\* null when there is nothing to average, else sum / count; Number(null) counts as 0
mean(numbers) ==
  LET RECURSIVE Sum(_)
      Sum(ns) == IF ns = <<>> THEN 0 ELSE NumberOf(Head(ns)) + Sum(Tail(ns))
  IN IF Len(numbers) = 0 THEN Null ELSE Some(Frac(Sum(numbers), Len(numbers)))

\* a variant that refuses a single vote (v <= 1 in place of v <= 0)
computeWeightedRatingAboveOneVote(averageRating, voteCount, globalAverage, m) ==
  LET R == NumberOf(averageRating)
      v == NumberOf(voteCount)
      C == IF IsNull(globalAverage) THEN Frac(0, 1) ELSE Val(globalAverage)
  IN IF v <= 1 THEN Null
     ELSE IF m < 0 THEN Null
     ELSE Some(Frac(v * R * C.den + m * C.num, (v + m) * C.den))

\* a variant with the two weights exchanged: (m/(v+m))*R + (v/(v+m))*C
computeWeightedRatingSwapped(averageRating, voteCount, globalAverage, m) ==
  LET R == NumberOf(averageRating)
      v == NumberOf(voteCount)
      C == IF IsNull(globalAverage) THEN Frac(0, 1) ELSE Val(globalAverage)
  IN IF v <= 0 THEN Null
     ELSE IF m < 0 THEN Null
     ELSE Some(Frac(m * R * C.den + v * C.num, (v + m) * C.den))

\* (v/(v+m))*R + (m/(v+m))*C with C = globalAverage, a nullable fraction
computeWeightedRating(averageRating, voteCount, globalAverage, m) ==
  LET R == NumberOf(averageRating)
      v == NumberOf(voteCount)
      C == IF IsNull(globalAverage) THEN Frac(0, 1) ELSE Val(globalAverage)
  IN IF v <= 0 THEN Null
     ELSE IF m < 0 THEN Null
     ELSE Some(Frac(v * R * C.den + m * C.num, (v + m) * C.den))

RECURSIVE normalizeNameListFrom(_, _, _)
normalizeNameListFrom(items, names, seen) ==
  IF items = <<>> THEN names
  ELSE LET name == Trim(Head(items))
           key == ToLowerCase(name)
       IN IF name = <<>> \/ key \in seen
          THEN normalizeNameListFrom(Tail(items), names, seen)
          ELSE normalizeNameListFrom(Tail(items), Append(names, name), seen \cup {key})

normalizeNameList(items) == normalizeNameListFrom(items, <<>>, {})

normalizeGameTagged(g, coverSize, tagsByType) ==
  LET imageId == Get(g, "cover")
  IN [ id |-> Get(g, "id"),
       name |-> Some(Val(Coalesce(Get(g, "name"), Some(<<>>)))),
       summary |-> Get(g, "summary"),
       first_release_date |-> Get(g, "first_release_date"),
       rating |-> Get(g, "rating"),
       rating_count |-> Get(g, "rating_count"),
       aggregated_rating |-> Get(g, "aggregated_rating"),
       aggregated_rating_count |-> Get(g, "aggregated_rating_count"),
       total_rating |-> Get(g, "total_rating"),
       total_rating_count |-> Get(g, "total_rating_count"),
       weighted_rating |-> Get(g, "weighted_rating"),
       weighted_rating_meta |-> Get(g, "weighted_rating_meta"),
       coverImageId |-> imageId,
       coverUrl |-> IF IsNull(imageId) THEN Null
                    ELSE Some(getIgdbImageUrl(Val(imageId), coverSize)),
       category |-> Get(g, "category"),
       tags |-> tagsByType.genres \o tagsByType.themes \o tagsByType.modes
                \o tagsByType.perspectives,
       tagsByType |-> tagsByType ]

normalizeGame(g, coverSize) ==
  Only({ normalizeGameTagged(g, coverSize, tagsByType) :
           tagsByType \in {[ genres |-> normalizeNameList(g.genres),
                             themes |-> normalizeNameList(g.themes),
                             modes |-> normalizeNameList(g.game_modes),
                             perspectives |-> normalizeNameList(g.player_perspectives) ]} })

normalizeGames(games, coverSize) ==
  Only({ [i \in 1..Len(gs) |-> normalizeGame(gs[i], coverSize)] \o <<>> : gs \in {games} })

----------------------------------------------------------------------------
(* Filters *)

IntFrac(o) == IF IsNull(o) THEN Null ELSE Some(Frac(Val(o), 1))

\* a variant that prefers the total rating to the weighted one
getDisplayRatingTotalFirst(game) ==
  Coalesce(IntFrac(Get(game, "total_rating")),
    Coalesce(Get(game, "weighted_rating"),
      Coalesce(IntFrac(Get(game, "aggregated_rating")),
        IntFrac(Get(game, "rating")))))

\* weighted_rating ?? total_rating ?? aggregated_rating ?? rating ?? null
getDisplayRating(game) ==
  Coalesce(Get(game, "weighted_rating"),
    Coalesce(IntFrac(Get(game, "total_rating")),
      Coalesce(IntFrac(Get(game, "aggregated_rating")),
        IntFrac(Get(game, "rating")))))

normalizeTagFilters(tags) ==
  LET trimmed == [i \in 1..Len(tags) |-> Trim(tags[i])]
  IN FilterSeq(trimmed, [i \in 1..Len(trimmed) |-> trimmed[i] # <<>>])

\* a variant without the "?? -1": a record with no rating is never rejected
BelowMinRatingRatedOnly(g, safeMinRating) ==
  /\ IsPositive(safeMinRating)
  /\ ~IsNull(getDisplayRating(g))
  /\ FracBelow(Val(getDisplayRating(g)), safeMinRating)

\* the rating test of applyFilters: TRUE when the record is rejected
BelowMinRating(g, safeMinRating) ==
  /\ IsPositive(safeMinRating)
  /\ LET r == Val(Coalesce(getDisplayRating(g), Some(Frac(-1, 1))))
     IN FracBelow(r, safeMinRating)

\* every wanted term is a substring of at least one lower-cased tag
MatchesAllTags(g, wanted) ==
  LET haystack == [i \in 1..Len(g.tags) |-> ToLowerCase(g.tags[i])]
  IN \A w \in 1..Len(wanted) :
       \E t \in 1..Len(haystack) : Includes(haystack[t], wanted[w])

KeepGame(g, safeMinRating, wanted, hideMature) ==
  /\ ~(hideMature /\ isMatureGame(g))
  /\ ~BelowMinRating(g, safeMinRating)
  /\ (Len(wanted) > 0 => MatchesAllTags(g, wanted))

applyFilters(games, minRating, tagFilters, hideMature) ==
  Only({ FilterSeq(gs,
           [i \in 1..Len(gs) |->
              KeepGame(gs[i], NumberOrZero(minRating), wanted, hideMature)]) :
         gs \in {games},
         wanted \in { Only({ [i \in 1..Len(norm) |-> ToLowerCase(norm[i])] \o <<>> :
                              norm \in {normalizeTagFilters(tagFilters)} }) } })

----------------------------------------------------------------------------
(* Ranking: sorts, de-duplication, the three branches of fetchIgdbGames *)

\* Number(total_rating ?? aggregated_rating ?? rating ?? -1)
SearchRatingKey(g) ==
  Val(Coalesce(g.total_rating, Coalesce(g.aggregated_rating, Coalesce(g.rating, Some(-1)))))

\* Number(total_rating_count ?? aggregated_rating_count ?? rating_count ?? -1)
SearchVotesKey(g) ==
  Val(Coalesce(g.total_rating_count,
        Coalesce(g.aggregated_rating_count, Coalesce(g.rating_count, Some(-1)))))

ReleaseKey(g) == Val(Coalesce(g.first_release_date, Some(-1)))

\* a variant whose rating comparator is ar - br (ascending)
SortsBeforeAscending(kind, a, b) ==
  CASE kind = "release" -> ReleaseKey(b) < ReleaseKey(a)
    [] kind = "rating" ->
         IF SearchRatingKey(b) # SearchRatingKey(a)
         THEN SearchRatingKey(a) < SearchRatingKey(b)
         ELSE SearchVotesKey(a) < SearchVotesKey(b)
    [] kind = "score" -> FracLT(Val(b.score), Val(a.score))

\* comparator(a, b) < 0 : a is placed before b
SortsBefore(kind, a, b) ==
  CASE kind = "release" -> ReleaseKey(b) < ReleaseKey(a)
    [] kind = "rating" ->
         IF SearchRatingKey(b) # SearchRatingKey(a)
         THEN SearchRatingKey(b) < SearchRatingKey(a)
         ELSE SearchVotesKey(b) < SearchVotesKey(a)
    [] kind = "score" -> FracLT(Val(b.score), Val(a.score))

RECURSIVE InsertSorted(_, _, _)
InsertSorted(kind, x, sorted) ==
  IF sorted = <<>> THEN <<x>>
  ELSE IF SortsBefore(kind, x, Head(sorted)) THEN <<x>> \o sorted
  ELSE <<Head(sorted)>> \o InsertSorted(kind, x, Tail(sorted))

RECURSIVE SortFrom(_, _, _)
SortFrom(kind, todo, sorted) ==
  IF todo = <<>> THEN sorted
  ELSE SortFrom(kind, Tail(todo), InsertSorted(kind, Head(todo), sorted))

\* Array.prototype.sort with the comparator of `kind` (stable)
SortBy(kind, games) == SortFrom(kind, games, <<>>)

\* a variant that never consults the set of ids seen
RECURSIVE UniqueFromUnseen(_, _, _)
UniqueFromUnseen(games, unique, seen) ==
  IF games = <<>> THEN unique
  ELSE LET g == Head(games)
       IN IF IsNull(g.id)
          THEN UniqueFromUnseen(Tail(games), unique, seen)
          ELSE UniqueFromUnseen(Tail(games), Append(unique, g), seen \cup {Val(g.id)})

RECURSIVE UniqueFrom(_, _, _)
UniqueFrom(games, unique, seen) ==
  IF games = <<>> THEN unique
  ELSE LET g == Head(games)
       IN IF IsNull(g.id) \/ Val(g.id) \in seen
          THEN UniqueFrom(Tail(games), unique, seen)
          ELSE UniqueFrom(Tail(games), Append(unique, g), seen \cup {Val(g.id)})

\* the "unique / seen" loop: first occurrence of each non-null id
UniqueById(games) == UniqueFrom(games, <<>>, {})

\* mergedMap: Map keyed by id; keys keep first-insertion order, values are the last set
MergeWithId(withId) ==
  Only({ [i \in 1..Len(firsts) |->
            withId[CHOOSE j \in 1..Len(withId) :
                     /\ withId[j].id = firsts[i].id
                     /\ \A k \in (j + 1)..Len(withId) : withId[k].id # firsts[i].id]]
         \o <<>> :
         firsts \in {FilterSeq(withId,
                       [i \in 1..Len(withId) |->
                          \A j \in 1..(i - 1) : withId[j].id # withId[i].id])} })

MergeById(raws) ==
  Only({ MergeWithId(withId) :
         withId \in {FilterSeq(raws, [i \in 1..Len(raws) |-> ~IsNull(Get(raws[i], "id"))])} })

\* all.slice(start, start + size)
Slice(all, start, size) == SubSeq(all, start + 1, Min(start + size, Len(all)))

\* a variant without the test against the fetch time
IsReleasedOrUpcoming(g, nowSeconds) ==
  /\ ~IsNull(g.first_release_date)
  /\ Val(g.first_release_date) > 0

IsReleased(g, nowSeconds) ==
  /\ ~IsNull(g.first_release_date)
  /\ Val(g.first_release_date) > 0
  /\ Val(g.first_release_date) <= nowSeconds

\* the branch taken when queryText is not empty (one upstream query)
SearchCandidates(mode, raw, coverSize, nowSeconds) ==
  Only({ UniqueById(
           CASE mode = "new-releases" ->
                  SortBy("release",
                    FilterSeq(mainGames,
                      [i \in 1..Len(mainGames) |-> IsReleased(mainGames[i], nowSeconds)]))
             [] mode = "top-games" -> SortBy("rating", mainGames)
             [] OTHER -> mainGames) :
         mainGames \in {filterToMainGames(normalizeGames(raw, coverSize))} })

\* the top-games branch without a query (three upstream queries)
\* ranked: every candidate scored against globalAverage, those without a score
\* dropped, the rest sorted by score, descending
RankByScore(mainCandidates, globalAverage) ==
  Only({ SortBy("score",
           FilterSeq(scored, [i \in 1..Len(scored) |-> ~IsNull(scored[i].score)])) :
         scored \in {[i \in 1..Len(mainCandidates) |->
                        [ game |-> mainCandidates[i],
                          score |-> computeWeightedRating(mainCandidates[i].total_rating,
                                      mainCandidates[i].total_rating_count,
                                      globalAverage, minVotes) ]] \o <<>>} })

\* top: the first IGDB_MAX_LIMIT_PER_REQUEST of ranked, each with its score attached
TopOfRanked(ranked, globalAverage) ==
  Only({ [i \in 1..Len(kept) |->
            [kept[i].game EXCEPT
               !.weighted_rating = kept[i].score,
               !.weighted_rating_meta =
                  Some([globalAverage |-> globalAverage, minVotes |-> minVotes])]]
         \o <<>> :
         kept \in {Slice(ranked, 0, IGDB_MAX_LIMIT_PER_REQUEST)} })

\* mean of the baseline's total ratings, or of the candidates' when there is none
GlobalAverage(baselineMain, mainCandidates) ==
  Coalesce(mean([i \in 1..Len(baselineMain) |-> baselineMain[i].total_rating]),
           mean([i \in 1..Len(mainCandidates) |-> mainCandidates[i].total_rating]))

TopGamesCandidates(rawByRating, rawByVotes, rawBaseline, coverSize) ==
  Only({ Only({ Only({ UniqueById(TopOfRanked(ranked, globalAverage)) :
                       ranked \in {RankByScore(mainCandidates, globalAverage)} }) :
                globalAverage \in {GlobalAverage(baselineMain, mainCandidates)} }) :
         mainCandidates \in
           {filterToMainGames(normalizeGames(MergeById(rawByRating \o rawByVotes), coverSize))},
         baselineMain \in {filterToMainGames(normalizeGames(rawBaseline, coverSize))} })

\* the new-releases branch without a query (one upstream query)
NewReleasesCandidates(raw, coverSize) ==
  UniqueById(filterToMainGames(normalizeGames(raw, coverSize)))

SupportedMode(mode, queryText) ==
  queryText # <<>> \/ mode \in {"top-games", "new-releases"}

\* number of upstream catalog queries a fetch with these arguments sends
QueriesOf(mode, queryText) ==
  IF queryText = <<>> /\ mode = "top-games" THEN 3 ELSE 1

\* the ranked, filtered list: raws is the tuple of upstream answers
RankedList(p, queryText, raws, nowSeconds) ==
  Only({ applyFilters(candidates, p.minRating, p.tagFilters, p.hideMature) :
         candidates \in
           { IF queryText # <<>>
             THEN SearchCandidates(p.mode, raws[1], p.coverSize, nowSeconds)
             ELSE IF p.mode = "top-games"
             THEN TopGamesCandidates(raws[1], raws[2], raws[3], p.coverSize)
             ELSE NewReleasesCandidates(raws[1], p.coverSize) } })

----------------------------------------------------------------------------
(* Upstream catalog records used by the model *)

tRPG == <<"R","P","G">>
tShooter == <<"S","h","o","o","t","e","r">>
tErotic == <<"E","r","o","t","i","c">>
tZelda == <<"Z","e","l","d","a">>

RawGame(id, name, total, votes, parent, genres, themes) ==
  [ id |-> id, name |-> Some(name), summary |-> Null, first_release_date |-> Some(3),
    rating |-> Null, rating_count |-> Null,
    aggregated_rating |-> Null, aggregated_rating_count |-> Null,
    total_rating |-> total, total_rating_count |-> votes,
    category |-> Some(0), version_parent |-> parent, parent_game |-> Null,
    cover |-> Some("co1"), genres |-> genres, themes |-> themes,
    game_modes |-> <<>>, player_perspectives |-> <<>> ]

gZelda == RawGame(Some(1), tZelda, Some(90), Some(50), Null, <<tRPG>>, <<>>)
\* rated below 80 by one voter; "sex" occurs only inside a longer word
gSussex == RawGame(Some(2), <<"S","u","s","s","e","x">>, Some(75), Some(1), Null, <<tRPG>>, <<>>)
\* a mature title
gSexQuest == RawGame(Some(3), <<"S","e","x"," "," ","Q","u","e","s","t">>, Some(95), Some(40), Null, <<tRPG>>, <<>>)
\* the oldest release
gDoom == [RawGame(Some(4), <<"D","o","o","m">>, Some(85), Some(30), Null, <<tShooter>>, <<>>)
            EXCEPT !.first_release_date = Some(1)]
\* no rating of any kind, an upcoming release
gUnrated == [RawGame(Some(5), <<"I","n","d","i","e">>, Null, Null, Null, <<tRPG, <<" ","r","p","g"," ">>>>, <<>>)
               EXCEPT !.first_release_date = Some(9)]
\* an edition of another record, re-using id 1
gEdition == RawGame(Some(1), <<"Z","e","l","d","a"," ","D","X">>, Some(60), Some(5), Some(9), <<tShooter>>, <<>>)
\* rated only by users, mature by its theme, no release date
gUserRated == [RawGame(Some(6), <<"T","a","l","e">>, Null, Null, Null, <<tRPG>>, <<tErotic>>)
                 EXCEPT !.rating = Some(82), !.rating_count = Some(7),
                        !.summary = Some(<<"A"," ","t","a","l","e",".">>), !.first_release_date = Null]
\* a record without an id
gNoId == RawGame(Null, <<"G","h","o","s","t">>, Some(88), Some(20), Null, <<tRPG>>, <<>>)

\* votes but no total rating
gVotesOnly == RawGame(Some(7), <<"B","e","t","a">>, Null, Some(10), Null, <<tRPG>>, <<>>)

\* two genres, the later of the alphabet first, and one of them twice
gTwoGenres ==
  RawGame(Some(8), <<"M","i","x">>, Some(70), Some(3), Null,
          <<tShooter, tRPG, <<"r","p","g">>>>, <<>>)

RawPool == {gZelda, gSussex, gSexQuest, gDoom, gUnrated, gEdition, gUserRated, gNoId}

----------------------------------------------------------------------------
(* Bounds of the model *)

\* the last instant of a behaviour, in minutes
MaxTime == 5
\* longest upstream answer drawn for the pure pipeline
MaxRaw == 2

\* two clients, each making one call of the GET route
Slots == {1, 2}

\* the instants at which something happens
Instants == {0, 1, MaxTime}

----------------------------------------------------------------------------
(* State *)

VARIABLES
  now,                  \* Date.now(), in minutes
  catalog,              \* what the upstream catalog answers at this moment
  cachedToken,          \* module variable cachedToken
  cachedTokenExpiresAt, \* module variable cachedTokenExpiresAt
  cachedResults,        \* module variable cachedResults: cache key -> entry
  calls,                \* the calls of the GET route / fetchIgdbGames in progress
  nFetched,             \* payloads computed so far (names the payloads)
  pin,                  \* pure pipeline: the inputs drawn
  pout,                 \* pure pipeline: the list computed from pin
  wr,                   \* weighted-rating calculator: inputs and result
  client,               \* browser: the state of the page and its handlers
  store                 \* browser: the document store and the auth service

vars == <<now, catalog, cachedToken, cachedTokenExpiresAt, cachedResults, calls,
          nFetched, pin, pout, wr, client, store>>

serverVars == <<now, catalog, cachedToken, cachedTokenExpiresAt, cachedResults, calls,
                nFetched>>

----------------------------------------------------------------------------
(* fetchIgdbGames: argument handling, cache key, paging *)

Args(mode, q, page, pageSize, coverSize, minRating, tagFilters, hideMature) ==
  [ mode |-> mode, q |-> q, page |-> page, pageSize |-> pageSize,
    coverSize |-> coverSize, minRating |-> minRating, tagFilters |-> tagFilters,
    hideMature |-> hideMature ]

\* Math.max(1, Math.min(Number(pageSize) || DEFAULT_PAGE_SIZE, DEFAULT_PAGE_SIZE))
SafePageSize(pageSize) ==
  NumMax(Num(1), NumMin(NumberOr(pageSize, Num(DEFAULT_PAGE_SIZE)),
                        Num(DEFAULT_PAGE_SIZE)))

\* Math.max(1, Number(page) || 1)
SafePage(page) == NumMax(Num(1), NumberOr(page, Num(1)))

\* typeof q === "string" ? q.trim() : ""
QueryText(q) == IF IsNull(q) THEN <<>> ELSE Trim(Val(q))

getCacheKey(mode, q, coverSize) == [mode |-> mode, q |-> q, coverSize |-> coverSize]

\* the JSON text the cache is keyed by, as the tuple of what it spells out
CacheKey(a) ==
  LET k == getCacheKey(a.mode, QueryText(a.q), a.coverSize)
  IN [ mode |-> k.mode, q |-> k.q, coverSize |-> k.coverSize,
       minRating |-> JsonNumber(NumberOrZero(a.minRating)),
       tagFilters |-> normalizeTagFilters(a.tagFilters),
       hideMature |-> a.hideMature ]

\* the result object built from a payload and a start index
\* all.slice(start, start + pageSize)
PageSlice(all, start, pageSize) ==
  SubSeq(all, SliceIndex(start, Len(all)) + 1,
         SliceIndex(NumAdd(start, pageSize), Len(all)))

\* (safePage - 1) * safePageSize
StartOf(safePage, safePageSize) == NumTimes(NumAdd(safePage, Num(-1)), safePageSize)

\* the result object built from a payload and a start index
PageResult(payload, page, pageSize, start) ==
  LET all == payload.gamesAll
      pageGames == PageSlice(all, start, pageSize)
  IN [ fetchedAt |-> payload.fetchedAt, mode |-> payload.mode, q |-> payload.q,
       page |-> page, pageSize |-> pageSize, total |-> Len(all),
       count |-> Len(pageGames),
       hasMore |-> NumLT(NumAdd(start, pageSize), Num(Len(all))),
       games |-> pageGames ]

\* a variant of the cache-hit path that starts one page too far
HitResultNextPage(existing, safePage, safePageSize) ==
  PageResult(existing.payload, safePage, safePageSize,
             NumTimes(safePage, safePageSize))

\* the return of the cache-hit path
HitResult(existing, safePage, safePageSize) ==
  PageResult(existing.payload, safePage, safePageSize,
             StartOf(safePage, safePageSize))

\* the return of the cache-miss path
MissResult(payload, safePage, safePageSize) ==
  PageResult(payload, safePage, safePageSize, StartOf(safePage, safePageSize))

\* existing && Date.now() - existing.cachedAt < 5 * 60_000
IsFresh(cache, key, t) ==
  key \in DOMAIN cache /\ t - cache[key].cachedAt < CACHE_TTL

\* a variant that uses the cached token until the moment it expires
TokenUsableUntilExpiry(token, expiresAt, t) == ~IsNull(token) /\ expiresAt - t > 0

\* cachedToken && cachedTokenExpiresAt - now > 60_000
TokenUsable(token, expiresAt, t) == ~IsNull(token) /\ expiresAt - t > TOKEN_MARGIN

----------------------------------------------------------------------------
(* The GET route around fetchIgdbGames *)

\* NextResponse.json(payload): the body is the payload as JSON spells it out
RouteOk(payload) ==
  [ status |-> 200,
    body |-> [payload EXCEPT !.page = JsonNumber(@), !.pageSize = JsonNumber(@)] ]

\* NextResponse.json({ error: error.message }, { status: 500 })
RouteError(message) == [status |-> 500, body |-> [error |-> message]]

TokenErrorMessage(body) == <<"Token request failed: ", body>>
QueryErrorMessage(body) == <<"IGDB query failed: ", body>>
ModeErrorMessage(mode) == <<"Unsupported mode: ", mode>>

\* await response.json() comes before the test of response.ok: a body that is
\* not JSON rejects with the parser's SyntaxError
JsonSyntaxErrorMessage == <<"Unexpected token in JSON">>

\* the message of the error thrown by getAccessToken on a non-OK answer
TokenFailureMessage(body) ==
  IF body.json THEN TokenErrorMessage(body.text) ELSE JsonSyntaxErrorMessage

\* the message of the error thrown by igdbQuery on a non-OK answer
QueryFailureMessage(body) ==
  IF body.json THEN QueryErrorMessage(body.text) ELSE JsonSyntaxErrorMessage

----------------------------------------------------------------------------
(* The upstream services *)

\* the answers the catalog can give; it answers every query with its current one
Catalogs == << <<gZelda, gSussex, gDoom>>, <<gDoom, gZelda, gUnrated>> >>

\* expires_in of a token answer, in minutes (0: missing or not a number)
ExpiresIn == {0, 2}

\* the body of a non-OK answer: its text, and whether the text is JSON
UpstreamBody(text, isJson) == [text |-> text, json |-> isJson]

TokenFailureBodies ==
  {UpstreamBody("{message: invalid client}", TRUE), UpstreamBody("<html>403</html>", FALSE)}
QueryFailureBodies ==
  {UpstreamBody("{message: Too Many Requests}", TRUE), UpstreamBody("<html>502</html>", FALSE)}

tQuery == <<" ","Z","e","l","d","a">>

\* the calls the clients make
Requests ==
  { Args("top-games", Some(tQuery), pg[1], Num(2), "t_cover_big", pg[2], <<>>, TRUE) :
      pg \in {<<Num(1), Num(0)>>, <<Num(2), Num(0)>>, <<Num(1), PosInf>>, <<Num(1), NegInf>>} }
  \cup { Args("top-games", Null, Num(1), Num(2), "t_cover_big", Num(0), <<>>, TRUE),
         Args("trending", Null, Num(1), Num(2), "t_cover_big", Num(0), <<>>, TRUE) }

----------------------------------------------------------------------------
(* Actions of the server *)

IdleCall == [pc |-> "idle"]

InFlight(c) == c.pc \in {"token", "query"}

\* after getAccessToken: send the catalog queries of the branch, or throw
EnterQuery(c, token) ==
  IF SupportedMode(c.args.mode, QueryText(c.args.q))
  THEN [c EXCEPT !.pc = "query", !.accessToken = Some(token),
                 !.got = [i \in 1..QueriesOf(c.args.mode, QueryText(c.args.q)) |-> Null],
                 !.queryRequests = QueriesOf(c.args.mode, QueryText(c.args.q))]
  ELSE [c EXCEPT !.pc = "failed",
                 !.response = Some(RouteError(ModeErrorMessage(c.args.mode)))]

\* a variant in which a cache hit renews the entry's cachedAt
StartRenewingEntry(s, a) ==
  /\ calls[s].pc = "idle"
  /\ \A r \in 1..(s - 1) : calls[r].pc # "idle"
  /\ LET key == CacheKey(a)
         c == [ pc |-> "start", args |-> a, key |-> key, startedAt |-> now,
                accessToken |-> Null, got |-> <<>>, response |-> Null,
                servedFrom |-> Null, upstreamBody |-> Null,
                tokenRequests |-> 0, queryRequests |-> 0 ]
     IN /\ calls' = [calls EXCEPT ![s] =
             IF IsFresh(cachedResults, key, now)
             THEN [c EXCEPT !.pc = "done",
                     !.response = Some(RouteOk(HitResult(cachedResults[key],
                                    SafePage(a.page), SafePageSize(a.pageSize)))),
                     !.servedFrom = Some(cachedResults[key])]
             ELSE IF TokenUsable(cachedToken, cachedTokenExpiresAt, now)
             THEN EnterQuery(c, Val(cachedToken))
             ELSE [c EXCEPT !.pc = "token", !.tokenRequests = 1]]
        /\ cachedResults' =
             IF IsFresh(cachedResults, key, now)
             THEN [cachedResults EXCEPT ![key].cachedAt = now]
             ELSE cachedResults
  /\ UNCHANGED <<now, catalog, cachedToken, cachedTokenExpiresAt,
                 nFetched, pin, pout, wr, client, store>>

\* a request arrives: cache lookup, then the token
Start(s, a) ==
  /\ calls[s].pc = "idle"
  /\ \A r \in 1..(s - 1) : calls[r].pc # "idle"
  /\ LET key == CacheKey(a)
         c == [ pc |-> "start", args |-> a, key |-> key, startedAt |-> now,
                accessToken |-> Null, got |-> <<>>, response |-> Null,
                servedFrom |-> Null, upstreamBody |-> Null,
                tokenRequests |-> 0, queryRequests |-> 0 ]
     IN calls' = [calls EXCEPT ![s] =
          IF IsFresh(cachedResults, key, now)
          THEN [c EXCEPT !.pc = "done",
                  !.response = Some(RouteOk(HitResult(cachedResults[key],
                                 SafePage(a.page), SafePageSize(a.pageSize)))),
                  !.servedFrom = Some(cachedResults[key])]
          ELSE IF TokenUsable(cachedToken, cachedTokenExpiresAt, now)
          THEN EnterQuery(c, Val(cachedToken))
          ELSE [c EXCEPT !.pc = "token", !.tokenRequests = 1]]
  /\ UNCHANGED <<now, catalog, cachedToken, cachedTokenExpiresAt, cachedResults,
                 nFetched, pin, pout, wr, client, store>>

\* the token endpoint answers 200
TokenOk(s, e) ==
  /\ calls[s].pc = "token"
  /\ cachedToken' = Some([expiresAt |-> now + e])
  /\ cachedTokenExpiresAt' = now + e
  /\ calls' = [calls EXCEPT ![s] = EnterQuery(calls[s], Val(cachedToken'))]
  /\ UNCHANGED <<now, catalog, cachedResults, nFetched, pin, pout, wr, client, store>>

\* the token endpoint answers with a non-OK status
TokenFail(s, body) ==
  /\ calls[s].pc = "token"
  /\ calls' = [calls EXCEPT ![s] =
       [calls[s] EXCEPT !.pc = "failed", !.upstreamBody = Some(body),
                        !.response = Some(RouteError(TokenFailureMessage(body)))]]
  /\ UNCHANGED <<now, catalog, cachedToken, cachedTokenExpiresAt, cachedResults,
                 nFetched, pin, pout, wr, client, store>>

\* the payload built once every catalog answer is in
BuildPayload(a, answers, t) ==
  LET queryText == QueryText(a.q)
  IN [ fetchedAt |-> t, mode |-> a.mode,
       q |-> IF queryText # <<>> THEN Some(queryText) ELSE Null,
       gamesAll |-> RankedList(a, queryText, answers, t) ]

\* { cachedAt: Date.now(), payload }; fetchNo and computedFor only record which
\* fetch wrote the entry and for which arguments
CacheEntry(t, payload, fetchNo, a) ==
  [cachedAt |-> t, payload |-> payload, fetchNo |-> fetchNo, computedFor |-> a]

\* cachedResults.set(cacheKey, entry)
CacheSet(cache, key, entry) == (key :> entry) @@ cache

\* the catalog answers the queries of call s with status 200.  The answers of one
\* round are read at one instant here; PipeNext draws the three answers of a
\* top-games round independently of each other.
QueryRespond(s) ==
  /\ calls[s].pc = "query"
  /\ LET c == calls[s]
         answers == [i \in DOMAIN c.got |-> Catalogs[catalog]]
     IN \E payload \in {BuildPayload(c.args, answers, now)} :
          \E entry \in {CacheEntry(now, payload, nFetched + 1, c.args)} :
            /\ cachedResults' = CacheSet(cachedResults, c.key, entry)
            /\ nFetched' = nFetched + 1
            /\ calls' = [calls EXCEPT ![s] =
                 [c EXCEPT !.pc = "done", !.accessToken = Null, !.got = <<>>,
                    !.response = Some(RouteOk(MissResult(payload,
                                   SafePage(c.args.page), SafePageSize(c.args.pageSize)))),
                    !.servedFrom = Some(entry)]]
  /\ UNCHANGED <<now, catalog, cachedToken, cachedTokenExpiresAt, pin, pout, wr, client, store>>

\* a variant that caches an empty list when a query fails
QueryFailCachingEmpty(s, i, body) ==
  /\ calls[s].pc = "query"
  /\ i \in DOMAIN calls[s].got
  /\ calls' = [calls EXCEPT ![s] =
       [calls[s] EXCEPT !.pc = "failed", !.accessToken = Null, !.got = <<>>,
                        !.upstreamBody = Some(body),
                        !.response = Some(RouteError(QueryFailureMessage(body)))]]
  /\ cachedResults' =
       CacheSet(cachedResults, calls[s].key,
                CacheEntry(now, [fetchedAt |-> now, mode |-> calls[s].args.mode,
                                 q |-> Null, gamesAll |-> <<>>],
                           nFetched, calls[s].args))
  /\ UNCHANGED <<now, catalog, cachedToken, cachedTokenExpiresAt,
                 nFetched, pin, pout, wr, client, store>>

\* the catalog answers query i of call s with a non-OK status
QueryFail(s, i, body) ==
  /\ calls[s].pc = "query"
  /\ i \in DOMAIN calls[s].got
  /\ calls' = [calls EXCEPT ![s] =
       [calls[s] EXCEPT !.pc = "failed", !.accessToken = Null, !.got = <<>>,
                        !.upstreamBody = Some(body),
                        !.response = Some(RouteError(QueryFailureMessage(body)))]]
  /\ UNCHANGED <<now, catalog, cachedToken, cachedTokenExpiresAt, cachedResults,
                 nFetched, pin, pout, wr, client, store>>

\* the upstream catalog changes
UpstreamChange ==
  /\ catalog' \in (1..Len(Catalogs)) \ {catalog}
  /\ UNCHANGED <<now, cachedToken, cachedTokenExpiresAt, cachedResults, calls,
                 nFetched, pin, pout, wr, client, store>>

\* time passes, to a later instant
Tick ==
  /\ now' \in {t \in Instants : t > now}
  /\ UNCHANGED <<catalog, cachedToken, cachedTokenExpiresAt, cachedResults, calls,
                 nFetched, pin, pout, wr, client, store>>

PureIdle == [k |-> "unused"]

Init ==
  /\ now = 0
  /\ catalog = 1
  /\ cachedToken = Null
  /\ cachedTokenExpiresAt = 0
  /\ cachedResults = <<>>
  /\ calls = [s \in Slots |-> IdleCall]
  /\ nFetched = 0
  /\ pin = PureIdle
  /\ pout = PureIdle
  /\ wr = PureIdle
  /\ client = PureIdle
  /\ store = PureIdle

Next ==
  \/ \E s \in Slots, a \in Requests : Start(s, a)
  \/ \E s \in Slots, e \in ExpiresIn : TokenOk(s, e)
  \/ \E s \in Slots, b \in TokenFailureBodies : TokenFail(s, b)
  \/ \E s \in Slots : QueryRespond(s)
  \/ \E s \in Slots, i \in 1..3, b \in QueryFailureBodies : QueryFail(s, i, b)
  \/ UpstreamChange
  \/ Tick

Spec == Init /\ [][Next]_vars

----------------------------------------------------------------------------
(* The ranking pipeline on its own: inputs drawn in the initial state, one   *)
(* step that computes the list fetchIgdbGames would cache                    *)

ServerIdle ==
  /\ now = 0
  /\ catalog = 1
  /\ cachedToken = Null
  /\ cachedTokenExpiresAt = 0
  /\ cachedResults = <<>>
  /\ calls = [s \in Slots |-> IdleCall]
  /\ nFetched = 0

\* upstream answers of at most n records
RECURSIVE RawSeqs(_)
RawSeqs(n) ==
  IF n = 0 THEN {<<>>}
  ELSE LET shorter == RawSeqs(n - 1)
       IN shorter \cup {Append(r, g) : r \in shorter, g \in RawPool}

PipeNow == MaxTime

PipeArgs ==
  { Args(m, q, Num(1), Num(20), "t_cover_big", mr, tf, hm) :
      m \in {"top-games", "new-releases"}, q \in {Null, Some(tQuery)},
      mr \in {Num(0), Num(80), Num(-5), PosInf},
      tf \in {<<>>, <<tRPG>>}, hm \in BOOLEAN }

PipeAnswers(a) ==
  IF QueriesOf(a.mode, QueryText(a.q)) = 3
  THEN { <<r1, r2, r3>> : r1 \in RawSeqs(MaxRaw),
                          r2 \in {<<>>, <<gEdition>>, <<gDoom>>, <<gVotesOnly>>, <<gTwoGenres>>},
                          r3 \in {<<>>, <<gSexQuest>>, <<gUnrated, gZelda>>} }
  ELSE { <<r1>> : r1 \in RawSeqs(MaxRaw) }

PipeInit ==
  /\ ServerIdle
  /\ \E a \in PipeArgs : \E ans \in PipeAnswers(a) :
       pin = [k |-> "drawn", args |-> a, answers |-> ans]
  /\ pout = PureIdle
  /\ wr = PureIdle
  /\ client = PureIdle
  /\ store = PureIdle

PipeCompute ==
  /\ pin.k = "drawn"
  /\ pout.k = "unused"
  /\ pout' = [k |-> "ranked",
              games |-> RankedList(pin.args, QueryText(pin.args.q), pin.answers, PipeNow)]
  /\ UNCHANGED <<serverVars, pin, wr, client, store>>

PipeNext == PipeCompute

PipeSpec == PipeInit /\ [][PipeNext]_vars

----------------------------------------------------------------------------
(* computeWeightedRating on its own: two records scored against the same     *)
(* global average and minimum-votes constant                                 *)

WrRatings == {Null, Some(0), Some(60), Some(75), Some(100)}
WrVotes == {Null, Some(0), Some(1), Some(2), Some(50)}
WrAverages == {Null, Some(Frac(0, 1)), Some(Frac(70, 1)), Some(Frac(253, 3))}
WrMinVotes == {0, minVotes, -1}

WrInit ==
  /\ ServerIdle
  /\ pin = PureIdle
  /\ pout = PureIdle
  /\ client = PureIdle
  /\ store = PureIdle
  /\ \E r1 \in WrRatings, r2 \in WrRatings, v1 \in WrVotes, v2 \in WrVotes,
        c \in WrAverages, m \in WrMinVotes :
       wr = [k |-> "drawn", R1 |-> r1, v1 |-> v1, R2 |-> r2, v2 |-> v2,
             C |-> c, m |-> m, s1 |-> Null, s2 |-> Null, done |-> {}]

WrScore(n) ==
  /\ wr.k = "drawn"
  /\ n \notin wr.done
  /\ wr' = IF n = 1
           THEN [wr EXCEPT !.s1 = computeWeightedRating(wr.R1, wr.v1, wr.C, wr.m),
                           !.done = @ \cup {1}]
           ELSE [wr EXCEPT !.s2 = computeWeightedRating(wr.R2, wr.v2, wr.C, wr.m),
                           !.done = @ \cup {2}]
  /\ UNCHANGED <<serverVars, pin, pout, client, store>>

WrNext == \E n \in {1, 2} : WrScore(n)

WrSpec == WrInit /\ [][WrNext]_vars

----------------------------------------------------------------------------
(* Paging on its own: one request for a page of a ranked list, answered     *)
(* through the route once from a cache entry and once from a fresh payload   *)

MaxList == 4

\* what the page and pageSize parameters of a URL can spell
PageInputs ==
  { Num(0), Num(-3), Num(1), Num(2), Num(3), Num(25), NumF(3, 2), NaN, PosInf, NegInf }

PageCatalog ==
  normalizeGames(<<gZelda, gSussex, gSexQuest, gDoom, gUnrated, gUserRated, gVotesOnly>>,
                 "t_cover_big")

\* a filtered, ranked list of n records
PageList(n) == SubSeq(PageCatalog, 1, Min(n, Len(PageCatalog)))

PagePayload(n) ==
  [fetchedAt |-> 0, mode |-> "top-games", q |-> Null, gamesAll |-> PageList(n)]

PageInit ==
  /\ ServerIdle
  /\ \E page \in PageInputs, pageSize \in PageInputs, n \in 0..MaxList :
       pin = [k |-> "asked", page |-> page, pageSize |-> pageSize,
              payload |-> PagePayload(n)]
  /\ pout = [k |-> "pages", hit |-> Null, miss |-> Null]
  /\ wr = PureIdle
  /\ client = PureIdle
  /\ store = PureIdle

\* the request finds a fresh entry
PageHit ==
  /\ pin.k = "asked"
  /\ IsNull(pout.hit)
  /\ pout' = [pout EXCEPT !.hit =
               Some(RouteOk(HitResult(CacheEntry(0, pin.payload, 1, Null),
                                      SafePage(pin.page), SafePageSize(pin.pageSize))))]
  /\ UNCHANGED <<serverVars, pin, wr, client, store>>

\* the request builds the payload itself
PageMiss ==
  /\ pin.k = "asked"
  /\ IsNull(pout.miss)
  /\ pout' = [pout EXCEPT !.miss =
               Some(RouteOk(MissResult(pin.payload,
                                       SafePage(pin.page), SafePageSize(pin.pageSize))))]
  /\ UNCHANGED <<serverVars, pin, wr, client, store>>

PageNext == PageHit \/ PageMiss

PageSpec == PageInit /\ [][PageNext]_vars

----------------------------------------------------------------------------
(* containsMatureKeyword on its own: one text checked against a keyword list *)

MaxPieces == 3

TextPieces ==
  { <<"S","e","x">>, <<"s","e","x">>, <<"s","u","s">>, <<"a","d","u","l","t">>,
    <<"x">>, <<"2">>, <<" ">>, <<"\n">>, <<"-">>, <<"é">> }

\* texts of at most n pieces
RECURSIVE TextsOf(_)
TextsOf(n) ==
  IF n = 0 THEN {<<>>}
  ELSE LET shorter == TextsOf(n - 1)
       IN shorter \cup {t \o piece : t \in shorter, piece \in TextPieces}

KeywordLists ==
  { DEFAULT_MATURE_KEYWORDS,
    << <<" ","S","E","X"," ">>, <<"1","8","+">>, <<"a","d","u","l","t"," "," ","x">> >>,
    <<>> }

MatureInit ==
  /\ ServerIdle
  /\ \E text \in TextsOf(MaxPieces), keywords \in KeywordLists :
       pin = [k |-> "text", text |-> text, keywords |-> keywords]
  /\ pout = PureIdle
  /\ wr = PureIdle
  /\ client = PureIdle
  /\ store = PureIdle

MatureCheck ==
  /\ pin.k = "text"
  /\ pout.k = "unused"
  /\ pout' = [k |-> "matched",
              result |-> containsMatureKeywordIn(pin.text, NormalizedKeywords(pin.keywords))]
  /\ UNCHANGED <<serverVars, pin, wr, client, store>>

MatureNext == MatureCheck

MatureSpec == MatureInit /\ [][MatureNext]_vars

----------------------------------------------------------------------------
(* The GET route on its own: the parameters of one URL are read, the call   *)
(* is made on a cold cache and answered by one upstream answer               *)

\* a variant that also takes "false" for off
ParseHideMatureLoose(param) ==
  IF IsNull(param) THEN TRUE
  ELSE Val(param) \notin {<<"0">>, <<"f","a","l","s","e">>}

\* hideMature == null ? true : hideMature !== "0"
ParseHideMature(param) == IF IsNull(param) THEN TRUE ELSE Val(param) # <<"0">>

\* String.prototype.split(",")
RECURSIVE SplitComma(_, _)
SplitComma(t, piece) ==
  IF t = <<>> THEN <<piece>>
  ELSE IF Head(t) = "," THEN <<piece>> \o SplitComma(Tail(t), <<>>)
  ELSE SplitComma(Tail(t), Append(piece, Head(t)))

\* tags.split(",").map((t) => t.trim()).filter(Boolean)
ParseTags(tags) == normalizeTagFilters(SplitComma(tags, <<>>))

\* the arguments the route passes to fetchIgdbGames; a number parameter is
\* held as the number its text spells
RouteArgs(url) ==
  Args("top-games", url.q,
       Val(Coalesce(url.page, Some(Num(1)))),
       Val(Coalesce(url.pageSize, Some(Num(DEFAULT_PAGE_SIZE)))),
       "t_cover_big",
       NumberOrZero(Val(Coalesce(url.minRating, Some(Num(0))))),
       ParseTags(Val(Coalesce(url.tags, Some(<<>>)))),
       ParseHideMature(url.hideMature))

HideMatureParams ==
  { Null, Some(<<"0">>), Some(<<"1">>), Some(<<>>), Some(<<"0","0">>),
    Some(<<" ","0">>), Some(<<"f","a","l","s","e">>), Some(<<"t","r","u","e">>) }

RouteUrls ==
  [ q : {Null, Some(tQuery)}, page : {Null, Some(Num(1))}, pageSize : {Null},
    minRating : {Null, Some(Num(80)), Some(NaN)},
    tags : {Null, Some(<<"R","P","G",","," ">>)},
    hideMature : HideMatureParams ]

RouteAnswers ==
  { <<>>, <<gZelda>>, <<gSexQuest, gZelda>>, <<gUserRated, gDoom>>, <<gSussex, gSexQuest>> }

RouteInit ==
  /\ ServerIdle
  /\ \E url \in RouteUrls, answer \in RouteAnswers :
       pin = [k |-> "url", url |-> url, answer |-> answer]
  /\ pout = PureIdle
  /\ wr = PureIdle
  /\ client = PureIdle
  /\ store = PureIdle

\* GET: parse, fetch, answer
RouteGet ==
  /\ pin.k = "url"
  /\ pout.k = "unused"
  /\ \E a \in {RouteArgs(pin.url)} :
       \E answers \in {[i \in 1..QueriesOf(a.mode, QueryText(a.q)) |->
                          IF i = 3 THEN <<>> ELSE pin.answer] \o <<>>} :
         pout' = [k |-> "routed", args |-> a,
                  response |-> RouteOk(MissResult(BuildPayload(a, answers, PipeNow),
                                 SafePage(a.page), SafePageSize(a.pageSize)))]
  /\ UNCHANGED <<serverVars, pin, wr, client, store>>

RouteNext == RouteGet

RouteSpec == RouteInit /\ [][RouteNext]_vars

----------------------------------------------------------------------------
(* The client-side writes to the user's collection: handleRemove and         *)
(* handleRating of CollectionHome, handleAdd of AddGameModal and save of      *)
(* GameDataModal.  One handler runs; the outcome of each awaited call is      *)
(* fixed in the environment drawn at the start.                               *)

WriteOps == {"remove", "rating", "add", "save"}

\* the handlers that follow a failed SDK write with a REST write
HasRestFallback(op) == op \in {"remove", "rating"}

\* what a handler tells the user before writing anything, if it declines
Declined(op, env) ==
  IF op = "save"
  THEN IF env.isSaving THEN Some(Null)
       ELSE IF ~env.signedIn \/ ~env.hasGameId
            THEN Some(Some("Sign in to edit game data."))
            ELSE Null
  ELSE IF ~env.signedIn THEN Some(Some("Sign in"))
  ELSE IF op = "add" /\ env.inCollection THEN Some(Some("Already added"))
  ELSE Null

\* the notice of the success path, if it has one
SuccessNotice(op) ==
  CASE op = "remove" -> Some("Removed")
    [] op = "add" -> Some("Added")
    [] op = "save" -> Some("saved")
    [] OTHER -> Null

FailureNotice(op) ==
  IF op = "save" THEN "Failed to save game data (see console). " ELSE "Error"

Shown(notices, o) == IF IsNull(o) THEN notices ELSE Append(notices, Val(o))

WriteEnvs ==
  [ signedIn : BOOLEAN, hasGameId : BOOLEAN, inCollection : BOOLEAN,
    isSaving : BOOLEAN, sdkOk : BOOLEAN, tokenOk : BOOLEAN,
    rest : {"ok", "not ok", "throws"} ]

HandlerIdle ==
  [ k |-> "handler", pc |-> "idle", sdk |-> "none", rest |-> "none",
    restWrites |-> 0, events |-> 0, notices |-> <<>> ]

WriteInit ==
  /\ ServerIdle
  /\ \E op \in WriteOps, env \in WriteEnvs : pin = [k |-> "write", op |-> op, env |-> env]
  /\ pout = HandlerIdle
  /\ wr = PureIdle
  /\ client = PureIdle
  /\ store = PureIdle

\* the handler returns before writing
WriteDeclined ==
  /\ pin.k = "write" /\ pout.pc = "idle"
  /\ ~IsNull(Declined(pin.op, pin.env))
  /\ pout' = [pout EXCEPT !.pc = "done",
                          !.notices = Shown(@, Val(Declined(pin.op, pin.env)))]
  /\ UNCHANGED <<serverVars, pin, wr, client, store>>

\* await deleteDoc / updateDoc / setDoc
SdkWrite ==
  /\ pin.k = "write" /\ pout.pc = "idle"
  /\ IsNull(Declined(pin.op, pin.env))
  /\ pout' = [pout EXCEPT !.pc = "sdk"]
  /\ UNCHANGED <<serverVars, pin, wr, client, store>>

SdkSucceeds ==
  /\ pin.k = "write" /\ pout.pc = "sdk"
  /\ pin.env.sdkOk
  /\ pout' = [pout EXCEPT !.pc = "done", !.sdk = "ok", !.events = @ + 1,
                          !.notices = Shown(@, SuccessNotice(pin.op))]
  /\ UNCHANGED <<serverVars, pin, wr, client, store>>

\* the SDK write throws: the catch block asks for the id token, or reports
SdkFails ==
  /\ pin.k = "write" /\ pout.pc = "sdk"
  /\ ~pin.env.sdkOk
  /\ pout' = IF HasRestFallback(pin.op)
             THEN [pout EXCEPT !.pc = "token", !.sdk = "failed"]
             ELSE [pout EXCEPT !.pc = "done", !.sdk = "failed",
                               !.notices = Append(@, FailureNotice(pin.op))]
  /\ UNCHANGED <<serverVars, pin, wr, client, store>>

\* await user.getIdToken() resolves and the REST request is sent
RestWrite ==
  /\ pin.k = "write" /\ pout.pc = "token"
  /\ pin.env.tokenOk
  /\ pout' = [pout EXCEPT !.pc = "rest", !.restWrites = @ + 1]
  /\ UNCHANGED <<serverVars, pin, wr, client, store>>

\* await user.getIdToken() throws
TokenFails ==
  /\ pin.k = "write" /\ pout.pc = "token"
  /\ ~pin.env.tokenOk
  /\ pout' = [pout EXCEPT !.pc = "done", !.rest = "failed",
                          !.notices = Append(@, FailureNotice(pin.op))]
  /\ UNCHANGED <<serverVars, pin, wr, client, store>>

RestSucceeds ==
  /\ pin.k = "write" /\ pout.pc = "rest"
  /\ pin.env.rest = "ok"
  /\ pout' = [pout EXCEPT !.pc = "done", !.rest = "ok", !.events = @ + 1,
                          !.notices = Shown(@, SuccessNotice(pin.op))]
  /\ UNCHANGED <<serverVars, pin, wr, client, store>>

\* fetch throws, or answers with a status that is not ok
RestFails ==
  /\ pin.k = "write" /\ pout.pc = "rest"
  /\ pin.env.rest # "ok"
  /\ pout' = [pout EXCEPT !.pc = "done", !.rest = "failed",
                          !.notices = Append(@, FailureNotice(pin.op))]
  /\ UNCHANGED <<serverVars, pin, wr, client, store>>

WriteNext ==
  \/ WriteDeclined
  \/ SdkWrite
  \/ SdkSucceeds
  \/ SdkFails
  \/ RestWrite
  \/ TokenFails
  \/ RestSucceeds
  \/ RestFails

WriteSpec == WriteInit /\ [][WriteNext]_vars

----------------------------------------------------------------------------
(* The login form (LoginModal) and the settings form (SettingsPage): one     *)
(* handler runs on the form as it was filled in                               *)

MaxUsername == 24
MinPassword == 8

\* [^\s@]
IsEmailChar(c) == ~IsSpace(c) /\ c # "@"

\* /^[^\s@]+@[^\s@]+\.[^\s@]+$/ .test(String(value).trim())
validateEmail(value) ==
  \E email \in {Trim(value)} :
    \E i \in 2..Len(email), j \in 4..(Len(email) - 1) :
      /\ i + 1 < j
      /\ email[i] = "@" /\ email[j] = "."
      /\ \A x \in (1..Len(email)) \ {i, j} : IsEmailChar(email[x])

\* a variant that accepts any non-empty password
getFormIssueAnyPassword(email, password) ==
  IF Trim(email) = <<>> THEN "Email is required."
  ELSE IF ~validateEmail(Trim(email)) THEN "Enter a valid email address."
  ELSE IF password = <<>> THEN "Password is required."
  ELSE ""

getFormIssue(email, password) ==
  IF Trim(email) = <<>> THEN "Email is required."
  ELSE IF ~validateEmail(Trim(email)) THEN "Enter a valid email address."
  ELSE IF password = <<>> THEN "Password is required."
  ELSE IF Len(password) < MinPassword THEN "Password must be at least 8 characters."
  ELSE ""

\* the notice saveSettings returns with before writing, if any
SettingsIssue(signedIn, username) ==
  IF ~signedIn THEN Some("Sign in")
  ELSE IF Trim(username) # <<>> /\ Len(Trim(username)) > MaxUsername THEN Some("Username")
  ELSE Null

Repeat(c, n) == [i \in 1..n |-> c] \o <<>>

FormEmails ==
  { <<>>, <<" "," ">>, <<"a","b">>, <<"a","@","b">>, <<"a","@","b",".","c">>,
    <<" ","a","@","b",".","c"," ">>, <<"a","@","b",".",".","c">>,
    <<"a"," ","b","@","c",".","d">>, <<"a","@","@","b",".","c">>, <<"a","@",".","c">> }

FormPasswords == { <<>>, Repeat("p", MinPassword - 1), Repeat("p", MinPassword) }

FormUsernames ==
  { <<>>, Repeat("u", MaxUsername), Repeat("u", MaxUsername) \o <<" ">>,
    Repeat("u", MaxUsername + 1) }

FormIdle ==
  [ k |-> "ui", handler |-> "none", pc |-> "idle", busy |-> FALSE, error |-> "",
    notice |-> Null, authCalls |-> 0, storeCalls |-> 0 ]

FormInit ==
  /\ ServerIdle
  /\ \E email \in FormEmails, password \in FormPasswords, username \in FormUsernames,
        signedIn \in BOOLEAN, verified \in BOOLEAN :
       pin = [k |-> "form", email |-> email, password |-> password,
              username |-> username, signedIn |-> signedIn, emailVerified |-> verified]
  /\ pout = FormIdle
  /\ wr = PureIdle
  /\ client = PureIdle
  /\ store = PureIdle

\* handleSignIn / handleCreateAccount up to their first await
HandleLogin(handler) ==
  /\ pin.k = "form" /\ pout.pc = "idle"
  /\ \E issue \in {getFormIssue(pin.email, pin.password)} :
       pout' = IF issue # ""
               THEN [pout EXCEPT !.handler = handler, !.pc = "returned", !.error = issue]
               ELSE [pout EXCEPT !.handler = handler, !.pc = "auth", !.error = "",
                                 !.busy = TRUE, !.authCalls = @ + 1]
  /\ UNCHANGED <<serverVars, pin, wr, client, store>>

\* saveSettings up to its await
HandleSaveSettings ==
  /\ pin.k = "form" /\ pout.pc = "idle"
  /\ \E issue \in {SettingsIssue(pin.signedIn, pin.username)} :
       pout' = IF ~IsNull(issue)
               THEN [pout EXCEPT !.handler = "saveSettings", !.pc = "returned",
                                 !.notice = issue]
               ELSE [pout EXCEPT !.handler = "saveSettings", !.pc = "store",
                                 !.busy = TRUE, !.storeCalls = @ + 1]
  /\ UNCHANGED <<serverVars, pin, wr, client, store>>

\* signInWithEmailAndPassword / createUserWithEmailAndPassword settles
AuthSettles(ok) ==
  /\ pin.k = "form" /\ pout.pc = "auth"
  /\ pout' =
       IF ~ok THEN [pout EXCEPT !.pc = "returned", !.busy = FALSE, !.error = "auth error"]
       ELSE IF pout.handler = "createAccount"
       THEN [pout EXCEPT !.pc = "verification", !.authCalls = @ + 1]
       ELSE IF ~pin.emailVerified
       THEN [pout EXCEPT !.pc = "returned", !.busy = FALSE, !.authCalls = @ + 1,
                         !.error = "Please verify your email before signing in."]
       ELSE [pout EXCEPT !.pc = "store", !.storeCalls = @ + 1]
  /\ UNCHANGED <<serverVars, pin, wr, client, store>>

\* sendEmailVerification settles; upsertUserDoc follows either way
VerificationSettles(ok) ==
  /\ pin.k = "form" /\ pout.pc = "verification"
  /\ pout' = [pout EXCEPT !.pc = "store", !.storeCalls = @ + 1,
                          !.error = IF ok THEN "" ELSE "Account created, no email."]
  /\ UNCHANGED <<serverVars, pin, wr, client, store>>

\* setDoc settles
StoreSettles(ok) ==
  /\ pin.k = "form" /\ pout.pc = "store"
  /\ pout' =
       IF pout.handler = "saveSettings"
       THEN [pout EXCEPT !.pc = "returned", !.busy = FALSE,
                         !.notice = Some(IF ok THEN "Saved" ELSE "Error")]
       ELSE IF ~ok
       THEN [pout EXCEPT !.pc = "returned", !.busy = FALSE, !.error = "store error"]
       ELSE IF pout.handler = "createAccount"
       THEN [pout EXCEPT !.pc = "signOut", !.authCalls = @ + 1]
       ELSE [pout EXCEPT !.pc = "returned", !.busy = FALSE]
  /\ UNCHANGED <<serverVars, pin, wr, client, store>>

\* auth.signOut() after the account was created settles
SignOutSettles ==
  /\ pin.k = "form" /\ pout.pc = "signOut"
  /\ pout' = [pout EXCEPT !.pc = "returned", !.busy = FALSE]
  /\ UNCHANGED <<serverVars, pin, wr, client, store>>

FormNext ==
  \/ \E handler \in {"signIn", "createAccount"} : HandleLogin(handler)
  \/ HandleSaveSettings
  \/ \E ok \in BOOLEAN : AuthSettles(ok)
  \/ \E ok \in BOOLEAN : VerificationSettles(ok)
  \/ \E ok \in BOOLEAN : StoreSettles(ok)
  \/ SignOutSettles

FormSpec == FormInit /\ [][FormNext]_vars

----------------------------------------------------------------------------
(* fetchTagUniverse of TagPickerModal: a module-level cache {fetchedAt,      *)
(* value, promise} shared by every caller in the page                         *)

TAG_UNIVERSE_TTL == 10

MaxTagCalls == 3

TagCallers == {1, 2}
TagInstants == {0, TAG_UNIVERSE_TTL \div 2, TAG_UNIVERSE_TTL,
                TAG_UNIVERSE_TTL + TAG_UNIVERSE_TTL \div 2}

\* tagUniverseCache.value && now - tagUniverseCache.fetchedAt < TAG_UNIVERSE_TTL_MS
TagValueFresh(cache, t) == ~IsNull(cache.value) /\ t - cache.fetchedAt < TAG_UNIVERSE_TTL

TagCallerIdle == [pc |-> "idle", promise |-> 0, result |-> Null]

TagInit ==
  /\ ServerIdle
  /\ pin = PureIdle /\ pout = PureIdle /\ wr = PureIdle
  /\ store = PureIdle
  /\ client = [ k |-> "tags", now |-> 0,
                cache |-> [fetchedAt |-> 0, value |-> Null, promise |-> Null],
                fetches |-> <<>>,
                callers |-> [c \in TagCallers |-> TagCallerIdle],
                nCalls |-> 0 ]

\* fetchTagUniverse() up to its return or its await
TagCall(c) ==
  /\ client.k = "tags"
  /\ client.callers[c].pc = "idle"
  /\ client.nCalls < MaxTagCalls
  /\ client' =
       IF TagValueFresh(client.cache, client.now)
       THEN [client EXCEPT !.nCalls = @ + 1,
               !.callers[c] = [pc |-> "returned", promise |-> 0,
                               result |-> client.cache.value]]
       ELSE IF ~IsNull(client.cache.promise)
       THEN [client EXCEPT !.nCalls = @ + 1,
               !.callers[c] = [pc |-> "sharing", promise |-> Val(client.cache.promise),
                               result |-> Null]]
       ELSE [client EXCEPT !.nCalls = @ + 1,
               !.fetches = Append(@, "pending"),
               !.cache.promise = Some(Len(client.fetches) + 1),
               !.callers[c] = [pc |-> "owner", promise |-> Len(client.fetches) + 1,
                               result |-> Null]]
  /\ UNCHANGED <<serverVars, pin, pout, wr, store>>

\* the promise of fetch f settles: both requests answered, or the fetch threw
TagFetchSettles(f, ok) ==
  /\ client.k = "tags"
  /\ f \in DOMAIN client.fetches
  /\ client.fetches[f] = "pending"
  /\ client' = [client EXCEPT !.fetches[f] = IF ok THEN "resolved" ELSE "rejected"]
  /\ UNCHANGED <<serverVars, pin, pout, wr, store>>

\* the value a resolved fetch f yields
TagsOfFetch(f) == Some(f)

\* a variant whose cleanup runs only after a successful fetch
TagOwnerContinuesKeepingPromise(c) ==
  /\ client.k = "tags"
  /\ client.callers[c].pc = "owner"
  /\ client.fetches[client.callers[c].promise] # "pending"
  /\ client' =
       IF client.fetches[client.callers[c].promise] = "resolved"
       THEN [client EXCEPT
               !.cache = [fetchedAt |-> client.now,
                          value |-> TagsOfFetch(client.callers[c].promise),
                          promise |-> Null],
               !.callers[c] = [pc |-> "returned", promise |-> 0,
                               result |-> TagsOfFetch(client.callers[c].promise)]]
       ELSE [client EXCEPT
               !.callers[c] = [pc |-> "threw", promise |-> 0, result |-> Null]]
  /\ UNCHANGED <<serverVars, pin, pout, wr, store>>

\* the caller that started the fetch resumes after await: try, then finally
TagOwnerContinues(c) ==
  /\ client.k = "tags"
  /\ client.callers[c].pc = "owner"
  /\ client.fetches[client.callers[c].promise] # "pending"
  /\ client' =
       IF client.fetches[client.callers[c].promise] = "resolved"
       THEN [client EXCEPT
               !.cache = [fetchedAt |-> client.now,
                          value |-> TagsOfFetch(client.callers[c].promise),
                          promise |-> Null],
               !.callers[c] = [pc |-> "returned", promise |-> 0,
                               result |-> TagsOfFetch(client.callers[c].promise)]]
       ELSE [client EXCEPT
               !.cache.promise = Null,
               !.callers[c] = [pc |-> "threw", promise |-> 0, result |-> Null]]
  /\ UNCHANGED <<serverVars, pin, pout, wr, store>>

\* a caller that was handed the stored promise sees it settle
TagSharerContinues(c) ==
  /\ client.k = "tags"
  /\ client.callers[c].pc = "sharing"
  /\ client.fetches[client.callers[c].promise] # "pending"
  /\ client' =
       IF client.fetches[client.callers[c].promise] = "resolved"
       THEN [client EXCEPT
               !.callers[c] = [pc |-> "returned", promise |-> 0,
                               result |-> TagsOfFetch(client.callers[c].promise)]]
       ELSE [client EXCEPT
               !.callers[c] = [pc |-> "threw", promise |-> 0, result |-> Null]]
  /\ UNCHANGED <<serverVars, pin, pout, wr, store>>

\* the component that called is ready to call again
TagCallerDone(c) ==
  /\ client.k = "tags"
  /\ client.callers[c].pc \in {"returned", "threw"}
  /\ client' = [client EXCEPT !.callers[c] = TagCallerIdle]
  /\ UNCHANGED <<serverVars, pin, pout, wr, store>>

TagTick ==
  /\ client.k = "tags"
  /\ \E t \in TagInstants : t > client.now /\ client' = [client EXCEPT !.now = t]
  /\ UNCHANGED <<serverVars, pin, pout, wr, store>>

TagNext ==
  \/ \E c \in TagCallers : TagCall(c)
  \/ \E f \in 1..MaxTagCalls, ok \in BOOLEAN : TagFetchSettles(f, ok)
  \/ \E c \in TagCallers : TagOwnerContinues(c)
  \/ \E c \in TagCallers : TagSharerContinues(c)
  \/ \E c \in TagCallers : TagCallerDone(c)
  \/ TagTick

TagSpec == TagInit /\ [][TagNext]_vars

----------------------------------------------------------------------------
(* useUserSettings: the hook's state, its snapshot listener and the users/    *)
(* {uid} documents it listens to                                              *)

THEMES == {"dark", "midnight", "purple", "forest", "rose", "light", "paper"}

normalizeTheme(value) == IF ~IsNull(value) /\ Val(value) \in THEMES THEN Val(value) ELSE "dark"

DEFAULT_SETTINGS ==
  [hideMature |-> TRUE, tagFilters |-> <<>>, minRating |-> Num(0), theme |-> "dark"]

Users == {"ann", "bob"}

\* documents users/{u} can hold: missing, partially filled, filled
UserDocs(u) ==
  { Null,
    Some([username |-> Null, settings |-> Null]),
    Some([username |-> Some(u),
          settings |-> Some([hideMature |-> Some(u = "ann"),
                             tagFilters |-> Some(<<"", u>>),
                             minRating |-> Some(Num(70)),
                             theme |-> Some(IF u = "ann" THEN "light" ELSE "neon")])]) }

\* the success callback of onSnapshot, for the listener created under uid
SnapshotStateOf(uid, snap) ==
  IF IsNull(snap) THEN
    [uid |-> Some(uid), username |-> "",
     settings |-> [hideMature |-> TRUE, tagFilters |-> <<>>, minRating |-> Num(0),
                   theme |-> normalizeTheme(Null)]]
  ELSE
    [uid |-> Some(uid),
     username |-> IF IsNull(Val(snap).username) THEN "" ELSE Val(Val(snap).username),
     settings |->
       IF IsNull(Val(snap).settings) THEN
         [hideMature |-> TRUE, tagFilters |-> <<>>, minRating |-> Num(0),
          theme |-> normalizeTheme(Null)]
       ELSE
         [hideMature |-> IF IsNull(Val(Val(snap).settings).hideMature) THEN TRUE
                         ELSE Val(Val(Val(snap).settings).hideMature),
          tagFilters |-> IF IsNull(Val(Val(snap).settings).tagFilters) THEN <<>>
                         ELSE SelectSeq(Val(Val(Val(snap).settings).tagFilters),
                                        LAMBDA t : t # ""),
          minRating |-> IF IsNull(Val(Val(snap).settings).minRating) THEN Num(0)
                        ELSE NumberOrZero(Val(Val(Val(snap).settings).minRating)),
          theme |-> normalizeTheme(Val(Val(snap).settings).theme)]]

\* what the hook returns on a render
UseUserSettings ==
  [loading |-> ~IsNull(client.uid) /\ client.snapshotState.uid # client.uid,
   username |-> IF IsNull(client.uid) THEN "" ELSE client.snapshotState.username,
   settings |-> IF IsNull(client.uid) THEN DEFAULT_SETTINGS
                ELSE client.snapshotState.settings]

SettingsInit ==
  /\ ServerIdle
  /\ pin = PureIdle /\ pout = PureIdle /\ wr = PureIdle
  /\ store = [k |-> "users", docs |-> [u \in Users |-> Null]]
  /\ client = [ k |-> "settings", uid |-> Null, listener |-> Null,
                snapshotState |-> [uid |-> Null, username |-> "",
                                   settings |-> DEFAULT_SETTINGS] ]

\* sign-in, sign-out or a switch of user: the hook renders with the new uid
AuthChanges(next) ==
  /\ client.k = "settings"
  /\ next # client.uid
  /\ client' = [client EXCEPT !.uid = next]
  /\ UNCHANGED <<serverVars, pin, pout, wr, store>>

\* the effect of [uid]: the previous listener is removed, a new one is added
SettingsEffect ==
  /\ client.k = "settings"
  /\ client.listener # client.uid
  /\ client' = [client EXCEPT !.listener = client.uid]
  /\ UNCHANGED <<serverVars, pin, pout, wr, store>>

SnapshotDelivered ==
  /\ client.k = "settings"
  /\ ~IsNull(client.listener)
  /\ client' = [client EXCEPT !.snapshotState =
                  SnapshotStateOf(Val(client.listener), store.docs[Val(client.listener)])]
  /\ UNCHANGED <<serverVars, pin, pout, wr, store>>

SnapshotFails ==
  /\ client.k = "settings"
  /\ ~IsNull(client.listener)
  /\ client' = [client EXCEPT !.snapshotState =
                  [uid |-> client.listener, username |-> "", settings |-> DEFAULT_SETTINGS]]
  /\ UNCHANGED <<serverVars, pin, pout, wr, store>>

UserDocWritten(u, d) ==
  /\ client.k = "settings"
  /\ store.docs[u] # d
  /\ store' = [store EXCEPT !.docs[u] = d]
  /\ UNCHANGED <<serverVars, pin, pout, wr, client>>

SettingsNext ==
  \/ \E next \in {Null} \cup {Some(u) : u \in Users} : AuthChanges(next)
  \/ SettingsEffect
  \/ SnapshotDelivered
  \/ SnapshotFails
  \/ \E u \in Users : \E d \in UserDocs(u) : UserDocWritten(u, d)

SettingsSpec == SettingsInit /\ [][SettingsNext]_vars

----------------------------------------------------------------------------
(* AddGameModal: load() and the handlers that call it                         *)

MaxLoads == 3

ModalRatings == {0, 70}

\* the pages /api/igdb/top-games answers with, by minimum rating
ModalPages(min) == IF min = 0 THEN << <<1, 2>>, <<3>> >> ELSE << <<1>> >>

\* the body of the response to a request
ModalAnswer(req) ==
  IF req.nextPage \in DOMAIN ModalPages(req.min)
  THEN [games |-> ModalPages(req.min)[req.nextPage],
        hasMore |-> req.nextPage < Len(ModalPages(req.min))]
  ELSE [games |-> <<>>, hasMore |-> FALSE]

ModalInit ==
  /\ ServerIdle
  /\ pin = PureIdle /\ pout = PureIdle /\ wr = PureIdle
  /\ store = PureIdle
  /\ client = [ k |-> "modal", open |-> FALSE, loading |-> FALSE, error |-> FALSE,
                page |-> 1, hasMore |-> FALSE, games |-> <<>>, minRating |-> 0,
                issued |-> <<>>, outstanding |-> {}, outcome |-> <<>> ]

\* load(): the part before the await; the request is in flight afterwards
Load(c, nextPage, append, min) ==
  [c EXCEPT !.loading = TRUE, !.error = FALSE,
            !.issued = Append(@, [nextPage |-> nextPage, append |-> append, min |-> min]),
            !.outstanding = @ \cup {Len(c.issued) + 1},
            !.outcome = Append(@, "pending")]

\* the effect of [open, settings]: the modal opens, or the saved settings change
ModalEffect(min) ==
  /\ client.k = "modal"
  /\ Len(client.issued) < MaxLoads
  /\ ~client.open \/ min # client.minRating
  /\ client' = Load([client EXCEPT !.open = TRUE, !.games = <<>>, !.page = 1,
                                    !.hasMore = FALSE, !.minRating = min],
                     1, FALSE, min)
  /\ UNCHANGED <<serverVars, pin, pout, wr, store>>

\* FilterRange onCommit
CommitMinRating(v) ==
  /\ client.k = "modal"
  /\ client.open
  /\ Len(client.issued) < MaxLoads
  /\ client' = Load([client EXCEPT !.minRating = v], 1, FALSE, v)
  /\ UNCHANGED <<serverVars, pin, pout, wr, store>>

\* the Load more button, disabled while loading
LoadMore ==
  /\ client.k = "modal"
  /\ client.open /\ client.hasMore /\ ~client.loading
  /\ Len(client.issued) < MaxLoads
  /\ client' = Load(client, client.page + 1, TRUE, client.minRating)
  /\ UNCHANGED <<serverVars, pin, pout, wr, store>>

\* the response to request r arrives and load() resumes: try / catch / finally
LoadResumes(r, ok) ==
  /\ client.k = "modal"
  /\ r \in client.outstanding
  /\ client' =
       IF ok
       THEN [client EXCEPT
               !.games = IF client.issued[r].append
                         THEN @ \o ModalAnswer(client.issued[r]).games
                         ELSE ModalAnswer(client.issued[r]).games,
               !.hasMore = ModalAnswer(client.issued[r]).hasMore,
               !.page = client.issued[r].nextPage,
               !.loading = FALSE,
               !.outstanding = @ \ {r},
               !.outcome[r] = "ok"]
       ELSE [client EXCEPT
               !.error = TRUE, !.games = <<>>, !.hasMore = FALSE,
               !.loading = FALSE,
               !.outstanding = @ \ {r},
               !.outcome[r] = "failed"]
  /\ UNCHANGED <<serverVars, pin, pout, wr, store>>

ModalNext ==
  \/ \E min \in ModalRatings : ModalEffect(min)
  \/ \E v \in ModalRatings : CommitMinRating(v)
  \/ LoadMore
  \/ \E r \in 1..MaxLoads, ok \in BOOLEAN : LoadResumes(r, ok)

ModalSpec == ModalInit /\ [][ModalNext]_vars

----------------------------------------------------------------------------
(* The collection users/{uid}/games: Add (AddGameModal, TopGames), Remove     *)
(* and rating (CollectionHome), edit (GameDataModal), and the set of          *)
(* collection ids a page holds                                                *)

MaxOps == 2

Games == {7, 12}
UserRatings == {8}

DigitChars == <<"0", "1", "2", "3", "4", "5", "6", "7", "8", "9">>

RECURSIVE DecimalString(_)
\* String(n) of a natural number
DecimalString(n) ==
  IF n < 10 THEN DigitChars[n + 1]
  ELSE DecimalString(n \div 10) \o DigitChars[(n % 10) + 1]

\* doc(db, "users", uid, "games", String(game.id)), and the same id in the REST urls
GameDocId(g) == DecimalString(g)

DocIds == {GameDocId(g) : g \in Games} \cup {"auto"}

\* setDoc(ref, fields, {merge: true})
SetDocMerge(docs, d, fields) ==
  [docs EXCEPT ![d] =
     IF IsNull(@) THEN Some(fields)
     ELSE Some([f \in DOMAIN fields |->
                  IF IsNull(fields[f]) THEN Val(docs[d])[f] ELSE fields[f]])]

\* setDoc(ref, fields), and a REST PATCH without an update mask
SetDoc(docs, d, fields) == [docs EXCEPT ![d] = Some(fields)]

\* updateDoc(ref, fields) on an existing document
UpdateDoc(docs, d, fields) == SetDocMerge(docs, d, fields)

\* a delete that keeps the document and clears the user's data
DeleteDocSoft(docs, d) ==
  [docs EXCEPT ![d] = IF IsNull(@) THEN Null ELSE Some([Val(@) EXCEPT !.rating = Null])]

\* deleteDoc(ref), and a REST DELETE
DeleteDoc(docs, d) == [docs EXCEPT ![d] = Null]

CollectionPages == {"modal", "top"}

IdleOp ==
  [kind |-> "none", game |-> 0, value |-> 0, pc |-> "idle", notice |-> "none",
   existed |-> FALSE]

\* ops holds the handlers that are running, last the handler that finished last
CollectionInit ==
  /\ ServerIdle
  /\ pin = PureIdle /\ pout = PureIdle /\ wr = PureIdle
  /\ store = [k |-> "games", docs |-> [d \in DocIds |-> Null], clock |-> 1,
              otherTab |-> FALSE]
  /\ \E page \in CollectionPages :
       client = [ k |-> "collection", page |-> page, collectionIds |-> {},
                  fetch |-> [st |-> "unread", ids |-> {}],
                  ops |-> [i \in 1..MaxOps |-> IdleOp],
                  last |-> IdleOp, started |-> 0 ]

NewOp(kind, g, v, pc, notice) ==
  [kind |-> kind, game |-> g, value |-> v, pc |-> pc, notice |-> notice, existed |-> FALSE]

FreeSlots == {i \in DOMAIN client.ops : client.ops[i].pc = "idle"}

FreeSlot == CHOOSE i \in FreeSlots : \A j \in FreeSlots : i <= j

CanStart ==
  /\ client.k = "collection"
  /\ client.started < MaxOps
  /\ FreeSlots # {}

\* handleAdd of the page: the check of collectionIds, then the SDK write begins
HandleAdd(g) ==
  /\ CanStart
  /\ client' =
       IF GameDocId(g) \in client.collectionIds
       THEN [client EXCEPT !.started = @ + 1,
                           !.last = NewOp("add", g, 0, "done", "Already added")]
       ELSE [client EXCEPT !.started = @ + 1,
                           !.ops[FreeSlot] = NewOp("add", g, 0, "sdk", "none")]
  /\ UNCHANGED <<serverVars, pin, pout, wr, store>>

\* handleRemove, handleRating, GameDataModal save: the SDK write begins
HandleWrite(kind, g, v) ==
  /\ CanStart
  /\ client' = [client EXCEPT !.started = @ + 1,
                              !.ops[FreeSlot] = NewOp(kind, g, v, "sdk", "none")]
  /\ UNCHANGED <<serverVars, pin, pout, wr, store>>

\* window.dispatchEvent(new CustomEvent("collection:changed")): the page's
\* listener calls fetchIds when the writing component shares its window; the
\* model follows the fetch started last
EventOf(c, kind) ==
  IF kind = "add" \/ c.page = "modal"
  THEN [c EXCEPT !.fetch = [st |-> "unread", ids |-> {}]]
  ELSE c

SuccessOf(kind) ==
  IF kind = "add" THEN "Added" ELSE IF kind = "remove" THEN "Removed" ELSE "none"

\* handler i returns
Finished(c, i, notice, existed) ==
  [c EXCEPT !.ops[i] = IdleOp,
            !.last = [c.ops[i] EXCEPT !.pc = "done", !.notice = notice,
                                      !.existed = existed]]

\* the documents after the SDK write of op has been applied
SdkApplied(page, op, docs, ts) ==
  IF op.kind = "add" THEN
    IF page = "modal"
    THEN SetDocMerge(docs, GameDocId(op.game),
                     [id |-> Some(op.game), addedAt |-> Some(ts), rating |-> Null])
    ELSE SetDoc(docs, GameDocId(op.game),
                [id |-> Some(op.game), addedAt |-> Some(ts), rating |-> Null])
  ELSE IF op.kind = "remove" THEN DeleteDoc(docs, GameDocId(op.game))
  ELSE UpdateDoc(docs, GameDocId(op.game),
                 [id |-> Null, addedAt |-> Null, rating |-> Some(op.value)])

\* the SDK write of handler i settles
SdkSettles(i, ok) ==
  /\ client.k = "collection"
  /\ i \in DOMAIN client.ops
  /\ client.ops[i].pc = "sdk"
  /\ (ok /\ client.ops[i].kind \in {"rating", "edit"}) =>
       ~IsNull(store.docs[GameDocId(client.ops[i].game)])
  /\ IF ok
     THEN /\ store' = [store EXCEPT
                         !.docs = SdkApplied(client.page, client.ops[i], @, store.clock),
                         !.clock = @ + 1]
          /\ client' = EventOf(
               Finished(client, i, SuccessOf(client.ops[i].kind),
                        ~IsNull(store.docs[GameDocId(client.ops[i].game)])),
               client.ops[i].kind)
     ELSE /\ store' = store
          /\ client' =
               IF client.ops[i].kind = "edit"
                  \/ (client.ops[i].kind = "add" /\ client.page = "modal")
               THEN Finished(client, i, "Error", FALSE)
               ELSE [client EXCEPT !.ops[i].pc = "rest"]
  /\ UNCHANGED <<serverVars, pin, pout, wr>>

\* the documents after the REST write of op has been applied
RestApplied(op, docs, ts) ==
  IF op.kind = "add"
  THEN SetDoc(docs, GameDocId(op.game),
              [id |-> Some(op.game), addedAt |-> Some(ts), rating |-> Null])
  ELSE IF op.kind = "remove" THEN DeleteDoc(docs, GameDocId(op.game))
  ELSE SetDoc(docs, GameDocId(op.game),
              [id |-> Null, addedAt |-> Null, rating |-> Some(op.value)])

\* the REST fallback of handler i settles: the token request and the fetch
RestSettles(i, ok) ==
  /\ client.k = "collection"
  /\ i \in DOMAIN client.ops
  /\ client.ops[i].pc = "rest"
  /\ (ok /\ client.ops[i].kind = "add") =>
       IsNull(store.docs[GameDocId(client.ops[i].game)])
  /\ IF ok
     THEN /\ store' = [store EXCEPT
                         !.docs = RestApplied(client.ops[i], @, store.clock),
                         !.clock = @ + 1]
          /\ client' = EventOf(
               Finished(client, i, SuccessOf(client.ops[i].kind),
                        ~IsNull(store.docs[GameDocId(client.ops[i].game)])),
               client.ops[i].kind)
     ELSE /\ store' = store
          /\ client' = Finished(client, i, "Error", FALSE)
  /\ UNCHANGED <<serverVars, pin, pout, wr>>

\* another tab of the same user adds or removes a game
OtherTabWrites(g, adds) ==
  /\ client.k = "collection"
  /\ ~store.otherTab
  /\ IsNull(store.docs[GameDocId(g)]) = adds
  /\ store' = [store EXCEPT
                 !.docs = IF adds
                          THEN SetDocMerge(@, GameDocId(g),
                                 [id |-> Some(g), addedAt |-> Some(store.clock),
                                  rating |-> Null])
                          ELSE DeleteDoc(@, GameDocId(g)),
                 !.clock = @ + 1,
                 !.otherTab = TRUE]
  /\ UNCHANGED <<serverVars, pin, pout, wr, client>>

\* getDocs of fetchIds is answered by the server
FetchIdsReads ==
  /\ client.k = "collection"
  /\ client.fetch.st = "unread"
  /\ client' = [client EXCEPT
                  !.fetch = [st |-> "read", ids |-> {d \in DocIds : ~IsNull(store.docs[d])}]]
  /\ UNCHANGED <<serverVars, pin, pout, wr, store>>

\* fetchIds resumes with the snapshot
FetchIdsArrives ==
  /\ client.k = "collection"
  /\ client.fetch.st = "read"
  /\ client' = [client EXCEPT !.collectionIds = client.fetch.ids,
                               !.fetch = [st |-> "none", ids |-> {}]]
  /\ UNCHANGED <<serverVars, pin, pout, wr, store>>

\* getDocs rejects
FetchIdsFails ==
  /\ client.k = "collection"
  /\ client.fetch.st = "unread"
  /\ client' = [client EXCEPT !.fetch = [st |-> "none", ids |-> {}], !.collectionIds = {}]
  /\ UNCHANGED <<serverVars, pin, pout, wr, store>>

CollectionNext ==
  \/ \E g \in Games : HandleAdd(g)
  \/ \E kind \in {"remove", "rating", "edit"}, g \in Games, v \in UserRatings :
       HandleWrite(kind, g, v)
  \/ \E i \in 1..MaxOps, ok \in BOOLEAN : SdkSettles(i, ok)
  \/ \E i \in 1..MaxOps, ok \in BOOLEAN : RestSettles(i, ok)
  \/ \E g \in Games, adds \in BOOLEAN : OtherTabWrites(g, adds)
  \/ FetchIdsReads
  \/ FetchIdsArrives
  \/ FetchIdsFails

CollectionSpec == CollectionInit /\ [][CollectionNext]_vars

----------------------------------------------------------------------------
(* Claims C1 - C10 *)

Done(s) == calls[s].pc = "done"

\* the six components of the cache key, as the request carries them
KeyComponents(a) ==
  [ mode |-> a.mode, q |-> QueryText(a.q), coverSize |-> a.coverSize,
    minRating |-> NumberOrZero(a.minRating),
    tagFilters |-> normalizeTagFilters(a.tagFilters), hideMature |-> a.hideMature ]

\* the same {mode, query, minRating, tags, hideMature}
SameRequest(a, b) ==
  /\ a.mode = b.mode
  /\ QueryText(a.q) = QueryText(b.q)
  /\ a.minRating = b.minRating
  /\ a.tagFilters = b.tagFilters
  /\ a.hideMature = b.hideMature

UpstreamRequests(c) == c.tokenRequests + c.queryRequests

\* C1: two requests with the same arguments, hence the same cache key, that
\* are in progress at the same time share one upstream fetch: they never both
\* have upstream requests of their own.
C1_SingleFlight ==
  \A a \in Slots, b \in Slots :
    ( /\ a # b /\ InFlight(calls[a]) /\ InFlight(calls[b])
      /\ calls[a].key = calls[b].key
      /\ calls[a].args = calls[b].args )
      => (UpstreamRequests(calls[a]) = 0 \/ UpstreamRequests(calls[b]) = 0)

\* C2: two answered calls for the same {mode, query, minRating, tags,
\* hideMature}, made less than the cache TTL apart, are answered from the same
\* ranked list: same fetchedAt, same total, same records in the same order.
C2_CacheCorrectness ==
  \A a \in Slots, b \in Slots :
    ( /\ a # b /\ Done(a) /\ Done(b)
      /\ SameRequest(calls[a].args, calls[b].args)
      /\ calls[a].startedAt - calls[b].startedAt < CACHE_TTL
      /\ calls[b].startedAt - calls[a].startedAt < CACHE_TTL )
      => /\ Val(calls[a].response).body.fetchedAt = Val(calls[b].response).body.fetchedAt
         /\ Val(calls[a].response).body.total = Val(calls[b].response).body.total
         /\ Val(calls[a].servedFrom).payload.gamesAll
              = Val(calls[b].servedFrom).payload.gamesAll

\* what the filter claim says of one record of the filtered list
MatureKeywordMatches(g) ==
  \/ containsMatureKeyword(Val(g.name))
  \/ (~IsNull(g.summary) /\ containsMatureKeyword(Val(g.summary)))
  \/ \E t \in 1..Len(g.tags) : containsMatureKeyword(g.tags[t])

\* the first non-null of weighted, total, aggregated, simple rating
ClaimedDisplayRating(g) ==
  IF ~IsNull(g.weighted_rating) THEN g.weighted_rating
  ELSE IF ~IsNull(g.total_rating) THEN Some(Frac(Val(g.total_rating), 1))
  ELSE IF ~IsNull(g.aggregated_rating) THEN Some(Frac(Val(g.aggregated_rating), 1))
  ELSE IF ~IsNull(g.rating) THEN Some(Frac(Val(g.rating), 1))
  ELSE Null

\* the display rating exists and is >= minRating
RatingAtLeast(g, minRating) ==
  /\ ~IsNull(ClaimedDisplayRating(g))
  /\ ~FracBelow(Val(ClaimedDisplayRating(g)), minRating)

EveryTagMatches(g, requested) ==
  \A w \in 1..Len(requested) :
    \E t \in 1..Len(g.tags) : Includes(ToLowerCase(g.tags[t]), ToLowerCase(requested[w]))

Ranked == pin.k = "drawn" /\ pout.k = "ranked"

\* C3 as claimed: a record is in the filtered list only if (hideMature is false
\* or no mature keyword matches its name, summary or tags) and (minRating is 0
\* or its display rating is >= minRating) and every requested tag is a
\* case-insensitive substring of one of its tags.
C3_FilterSoundnessAsClaimed ==
  Ranked =>
    \A i \in 1..Len(pout.games) :
      LET g == pout.games[i]
      IN /\ (~pin.args.hideMature \/ ~MatureKeywordMatches(g))
         /\ (pin.args.minRating = Num(0) \/ RatingAtLeast(g, pin.args.minRating))
         /\ EveryTagMatches(g, pin.args.tagFilters)

\* C3 as amended: the same, with "minRating is 0" replaced by "minRating is not
\* positive": a threshold of 0 or below switches the rating test off.
C3_FilterSoundness ==
  Ranked =>
    \A i \in 1..Len(pout.games) :
      LET g == pout.games[i]
      IN /\ (~pin.args.hideMature \/ ~MatureKeywordMatches(g))
         /\ (~IsPositive(pin.args.minRating) \/ RatingAtLeast(g, pin.args.minRating))
         /\ EveryTagMatches(g, pin.args.tagFilters)

\* a positive threshold, a requested tag and hidden mature titles: some records
\* of the first answer were dropped and at least one got through
C3_Witness ==
  /\ Ranked
  /\ pin.args.hideMature /\ IsPositive(pin.args.minRating) /\ pin.args.tagFilters # <<>>
  /\ Len(pout.games) > 0
  /\ Len(pout.games) < Len(pin.answers[1])


\* the games of a page, and what it was cut from
PageGames(s) == Val(calls[s].response).body.games
PageNo(s) == Val(Val(calls[s].response).body.page).n
PageSizeOf(s) == Val(Val(calls[s].response).body.pageSize).n
EntryOf(s) == Val(calls[s].servedFrom)

PagesNeeded(total, size) == (total + size - 1) \div size

DistinctIds(games) ==
  \A i \in 1..Len(games), j \in 1..Len(games) : i # j => games[i].id # games[j].id

\* pages 1..N of one cache entry at one page size, N being 1 (slot a alone) or 2
\* (slot a with page 1, slot b with page 2), whichever slot asked first
CoversEntry(a, b) ==
  /\ Done(a) /\ Done(b)
  /\ EntryOf(a).fetchNo = EntryOf(b).fetchNo
  /\ calls[a].key = calls[b].key
  /\ PageSizeOf(a) = PageSizeOf(b)
  /\ PageNo(a) = 1
  /\ PageNo(b) = PagesNeeded(Len(EntryOf(a).payload.gamesAll), PageSizeOf(a))
  /\ (a = b <=> PageNo(b) = 1)

ExampleRequest(a) ==
  /\ a.mode = "top-games"
  /\ QueryText(a.q) = <<>>
  /\ a.minRating = Num(80)
  /\ a.tagFilters = <<tRPG>>
  /\ a.hideMature

\* C5 as claimed: the example request never returns a record whose total_rating
\* is below 80.
C5_TotalRatingAtLeast80 ==
  (Ranked /\ ExampleRequest(pin.args)) =>
    \A i \in 1..Len(pout.games) :
      IsNull(pout.games[i].total_rating) \/ Val(pout.games[i].total_rating) >= 80

\* C5 as amended: the example request never returns a record whose display
\* rating (the weighted rating when it has one, else total, aggregated, simple)
\* is missing or below 80.
C5_DisplayRatingAtLeast80 ==
  (Ranked /\ ExampleRequest(pin.args)) =>
    \A i \in 1..Len(pout.games) : RatingAtLeast(pout.games[i], Num(80))

\* the example request returned a record with a total_rating under 80, lifted
\* over 80 by the global average
C5_Witness ==
  /\ Ranked /\ ExampleRequest(pin.args)
  /\ \E i \in 1..Len(pout.games) :
       /\ ~IsNull(pout.games[i].total_rating)
       /\ Val(pout.games[i].total_rating) < 80
       /\ ~IsNull(pout.games[i].weighted_rating)

\* C6: a call that failed on a non-OK upstream answer is answered with status
\* 500 and a body {error: message} whose message carries the upstream body, and
\* it sent at most one token request and one round of catalog queries.
C6_UpstreamFailure ==
  \A s \in Slots :
    (calls[s].pc = "failed" /\ ~IsNull(calls[s].upstreamBody)) =>
      LET r == Val(calls[s].response)
      IN /\ r.status = 500
         /\ DOMAIN r.body = {"error"}
         /\ Len(r.body.error) = 2
         /\ r.body.error[2] = Val(calls[s].upstreamBody).text
         /\ calls[s].tokenRequests <= 1
         /\ calls[s].queryRequests
              <= QueriesOf(calls[s].args.mode, QueryText(calls[s].args.q))

WrScored == wr.k = "drawn" /\ wr.done = {1, 2}

\* C7: of two records with the same positive vote count, the same global
\* average and the same minVotes >= 0, the one with the higher raw rating has a
\* weighted score, and it is greater than or equal to the other's.
C7_MonotoneInRating ==
  ( /\ WrScored
    /\ ~IsNull(wr.v1) /\ wr.v1 = wr.v2 /\ Val(wr.v1) > 0
    /\ wr.m >= 0
    /\ ~IsNull(wr.R1) /\ ~IsNull(wr.R2) /\ Val(wr.R1) >= Val(wr.R2) )
    => /\ ~IsNull(wr.s1) /\ ~IsNull(wr.s2)
       /\ FracLE(Val(wr.s2), Val(wr.s1))

\* one vote each, ratings 100 and 60, m = minVotes: the scores differ
C7_Witness ==
  /\ WrScored
  /\ wr.v1 = Some(1) /\ wr.v2 = Some(1) /\ wr.m = minVotes
  /\ wr.R1 = Some(100) /\ wr.R2 = Some(60)
  /\ ~IsNull(wr.s1) /\ ~IsNull(wr.s2)
  /\ FracLT(Val(wr.s2), Val(wr.s1))

C9_KeyIsolation ==
  \A s \in Slots :
    Done(s) => KeyComponents(EntryOf(s).computedFor) = KeyComponents(calls[s].args)

\* C10: an entry of the cache is removed, or replaced by the fetch of a request
\* with the same six key components, only once its age has reached the TTL.
C10_TtlOnlyInvalidation ==
  [][ \A k \in DOMAIN cachedResults :
        ( \/ k \notin DOMAIN cachedResults'
          \/ /\ KeyComponents(cachedResults'[k].computedFor)
                  = KeyComponents(cachedResults[k].computedFor)
             /\ \/ cachedResults'[k].cachedAt # cachedResults[k].cachedAt
                \/ cachedResults'[k].payload # cachedResults[k].payload )
          => now - cachedResults[k].cachedAt >= CACHE_TTL ]_vars

----------------------------------------------------------------------------
(* Claims C11 - C20 *)

TopGamesNoQuery == Ranked /\ pin.args.mode = "top-games" /\ QueryText(pin.args.q) = <<>>

\* the total ratings of the baseline sample that are numbers
RatedBaseline ==
  FilterSeq(pin.answers[3],
    [i \in 1..Len(pin.answers[3]) |-> ~IsNull(Get(pin.answers[3][i], "total_rating"))])

RECURSIVE SumTotals(_)
SumTotals(games) ==
  IF games = <<>> THEN 0 ELSE Val(Head(games).total_rating) + SumTotals(Tail(games))

\* (v/(v+m))*R + (m/(v+m))*C with C = sum / count
BayesianScore(R, v, sum, count) ==
  Frac(v * R * count + minVotes * sum, (v + minVotes) * count)

\* C11: in top-games without a query, the list is ordered by non-increasing
\* weighted score; every record has a numeric total_rating and a positive vote
\* count; and its weighted_rating is the Bayesian score of its total_rating and
\* total_rating_count against the average of the baseline sample and minVotes.
C11_TopGamesRanking ==
  TopGamesNoQuery =>
    /\ \A i \in 1..Len(pout.games), j \in 1..Len(pout.games) :
         i < j => /\ ~IsNull(pout.games[i].weighted_rating)
                  /\ ~IsNull(pout.games[j].weighted_rating)
                  /\ FracLE(Val(pout.games[j].weighted_rating),
                            Val(pout.games[i].weighted_rating))
    /\ \A i \in 1..Len(pout.games) :
         LET g == pout.games[i]
         IN /\ ~IsNull(g.total_rating)
            /\ ~IsNull(g.total_rating_count) /\ Val(g.total_rating_count) > 0
            /\ ~IsNull(g.weighted_rating)
            /\ RatedBaseline # <<>> =>
                 FracEQ(Val(g.weighted_rating),
                        BayesianScore(Val(g.total_rating), Val(g.total_rating_count),
                                      SumTotals(RatedBaseline), Len(RatedBaseline)))


TopGamesSearch == Ranked /\ pin.args.mode = "top-games" /\ QueryText(pin.args.q) # <<>>

\* the pages of the ranked list at small page sizes
PagesOf(games) ==
  { HitResult([payload |-> [fetchedAt |-> 0, mode |-> "top-games", q |-> Null,
                            gamesAll |-> games]], Num(page), Num(size)).games :
      page \in 1..2, size \in 1..2 }

\* a missing number counts as the lowest
OrLowest(o) == IF IsNull(o) THEN -1 ELSE Val(o)

\* total rating descending, then total vote count descending
OrderedByTotalRating(games) ==
  \A i \in 1..Len(games), j \in 1..Len(games) :
    i < j =>
      /\ OrLowest(games[i].total_rating) >= OrLowest(games[j].total_rating)
      /\ (OrLowest(games[i].total_rating) = OrLowest(games[j].total_rating)
            => OrLowest(games[i].total_rating_count) >= OrLowest(games[j].total_rating_count))

\* the rating a record is sorted by: total, else aggregated, else simple rating
FirstRating(g) ==
  IF ~IsNull(g.total_rating) THEN Val(g.total_rating)
  ELSE IF ~IsNull(g.aggregated_rating) THEN Val(g.aggregated_rating)
  ELSE IF ~IsNull(g.rating) THEN Val(g.rating)
  ELSE -1

FirstVotes(g) ==
  IF ~IsNull(g.total_rating_count) THEN Val(g.total_rating_count)
  ELSE IF ~IsNull(g.aggregated_rating_count) THEN Val(g.aggregated_rating_count)
  ELSE IF ~IsNull(g.rating_count) THEN Val(g.rating_count)
  ELSE -1

OrderedByFirstRating(games) ==
  \A i \in 1..Len(games), j \in 1..Len(games) :
    i < j =>
      /\ FirstRating(games[i]) >= FirstRating(games[j])
      /\ (FirstRating(games[i]) = FirstRating(games[j])
            => FirstVotes(games[i]) >= FirstVotes(games[j]))

\* C12 as claimed: in top-games with a query, the filtered list and each of its
\* pages are ordered by total_rating descending, ties by total vote count
\* descending.
C12_SearchOrderByTotalRating ==
  TopGamesSearch =>
    /\ OrderedByTotalRating(pout.games)
    /\ \A page \in PagesOf(pout.games) : OrderedByTotalRating(page)

\* C12 as amended: the list and each of its pages are ordered by the first
\* non-null of total, aggregated and simple rating (else -1) descending, ties by
\* the first non-null of the three vote counts (else -1) descending.
C12_SearchOrderByFirstRating ==
  TopGamesSearch =>
    /\ OrderedByFirstRating(pout.games)
    /\ \A page \in PagesOf(pout.games) : OrderedByFirstRating(page)

\* a record rated only by users is listed ahead of a record with a lower total
\* rating, although the upstream answer had them the other way round
C12_Witness ==
  /\ TopGamesSearch
  /\ Len(pout.games) = 2
  /\ IsNull(pout.games[1].total_rating) /\ ~IsNull(pout.games[1].rating)
  /\ ~IsNull(pout.games[2].total_rating)
  /\ pin.answers[1][1].id = pout.games[2].id


NewReleasesSearch == Ranked /\ pin.args.mode = "new-releases" /\ QueryText(pin.args.q) # <<>>

\* C13: in new-releases with a query, every record of the list has a release
\* date d with 0 < d <= the fetch time, and the list is ordered by
\* non-increasing release date.
C13_ReleasedOnly ==
  NewReleasesSearch =>
    /\ \A i \in 1..Len(pout.games) :
         /\ ~IsNull(pout.games[i].first_release_date)
         /\ Val(pout.games[i].first_release_date) > 0
         /\ Val(pout.games[i].first_release_date) <= PipeNow
    /\ \A i \in 1..Len(pout.games), j \in 1..Len(pout.games) :
         i < j => Val(pout.games[i].first_release_date)
                    >= Val(pout.games[j].first_release_date)

\* the upstream answer was an older release followed by an upcoming one: only
\* the released record is listed
C13_Witness ==
  /\ NewReleasesSearch
  /\ Len(pin.answers[1]) = 2
  /\ pin.answers[1][2].first_release_date # Null
  /\ Val(pin.answers[1][2].first_release_date) > PipeNow
  /\ Len(pout.games) = 1
  /\ pout.games[1].id = pin.answers[1][1].id

\* two released records answered oldest first are listed newest first
C13_WitnessOrder ==
  /\ NewReleasesSearch
  /\ Len(pout.games) = 2
  /\ Val(pout.games[1].first_release_date) > Val(pout.games[2].first_release_date)
  /\ pin.answers[1][1].id = pout.games[2].id


\* the upstream records a listed record can have come from: same id and name, in
\* an answer that supplies candidates (the baseline sample supplies none)
SourcesOf(g) ==
  { r \in UNION { {pin.answers[k][n] : n \in 1..Len(pin.answers[k])} :
                  k \in 1..Min(2, Len(pin.answers)) } :
      r.id = g.id /\ r.name = g.name }

\* C14: no record of the list comes from an upstream record whose
\* version_parent or parent_game is not null.
C14_MainRecordsOnly ==
  Ranked =>
    \A i \in 1..Len(pout.games) :
      \A r \in SourcesOf(pout.games[i]) :
        IsNull(r.version_parent) /\ IsNull(r.parent_game)


NoNullId(games) == \A i \in 1..Len(games) : ~IsNull(games[i].id)

\* the ids of the candidate answers, one entry per upstream record
CandidateIds ==
  Flatten([k \in 1..Min(2, Len(pin.answers)) |->
             [n \in 1..Len(pin.answers[k]) |-> pin.answers[k][n].id]])

\* C15: in every mode the list, and each page cut from it, holds no two records
\* with the same id and no record with a null id.
C15_UniqueIds ==
  Ranked =>
    /\ DistinctIds(pout.games) /\ NoNullId(pout.games)
    /\ \A page \in PagesOf(pout.games) : DistinctIds(page) /\ NoNullId(page)

\* the upstream answers carried one id twice and the list kept one record of it
C15_Witness ==
  /\ Ranked
  /\ Len(CandidateIds) = 2
  /\ CandidateIds[1] = CandidateIds[2]
  /\ ~IsNull(CandidateIds[1])
  /\ Len(pout.games) = 1


\* the responses of a paging request that has been answered
PageResponses ==
  IF pin.k = "asked" /\ pout.k = "pages"
  THEN {Val(r) : r \in {pout.hit, pout.miss} \ {Null}}
  ELSE {}

\* a reported number lies in lo..hi; a number JSON spells as null lies nowhere
ReportedWithin(o, lo, hi) ==
  /\ ~IsNull(o)
  /\ ~NumLT(Val(o), Num(lo))
  /\ ~NumLT(Num(hi), Val(o))

ReportedAtLeast(o, lo) == ~IsNull(o) /\ ~NumLT(Val(o), Num(lo))

\* C16: whatever page and pageSize are supplied, the response reports
\* 1 <= pageSize <= 20 and page >= 1, and count never exceeds pageSize.
C16_PageSizeCap ==
  \A r \in PageResponses :
    /\ r.status = 200
    /\ ReportedWithin(r.body.pageSize, 1, DEFAULT_PAGE_SIZE)
    /\ ReportedAtLeast(r.body.page, 1)
    /\ ~NumLT(Val(r.body.pageSize), Num(r.body.count))

\* the same for requests whose page and pageSize are whole numbers or not
\* numbers at all
C16_WholeNumbersCapped ==
  \A r \in PageResponses :
    (pin.page.k \in {"num", "nan"} /\ pin.pageSize.k \in {"num", "nan"}) =>
      /\ ReportedWithin(r.body.pageSize, 1, DEFAULT_PAGE_SIZE)
      /\ ReportedAtLeast(r.body.page, 1)
      /\ ~NumLT(Val(r.body.pageSize), Num(r.body.count))

\* pageSize above the cap, page zero: a full first page of the capped size
C16_Witness ==
  /\ pin.k = "asked" /\ pin.pageSize = Num(25) /\ pin.page = Num(0)
  /\ \E r \in PageResponses :
       /\ r.body.pageSize = Some(Num(DEFAULT_PAGE_SIZE))
       /\ r.body.page = Some(Num(1))
       /\ r.body.count = MaxList


\* the records of list whose 0-based index i satisfies lo <= i < hi
Between(list, lo, hi) ==
  FilterSeq(list, [i \in 1..Len(list) |->
                     ~NumLT(Num(i - 1), lo) /\ NumLT(Num(i - 1), hi)])

\* what a response must say about the list it was cut from, for the page and
\* page size the server settled on
PageAsClaimed(r, list, page, pageSize) ==
  LET lo == NumTimes(NumAdd(page, Num(-1)), pageSize)
      hi == NumTimes(page, pageSize)
  IN /\ r.body.games = Between(list, lo, hi)
     /\ r.body.total = Len(list)
     /\ r.body.count = Len(r.body.games)
     /\ r.body.hasMore = (\E i \in 1..Len(list) : ~NumLT(Num(i - 1), hi))
     /\ r.body.hasMore = NumLT(hi, Num(Len(list)))
     /\ (~NumLT(lo, Num(Len(list))) => r.body.count = 0 /\ ~r.body.hasMore)

\* C17: on the cache-hit and on the cache-miss path the page is the slice
\* [(page-1)*pageSize, page*pageSize) of the list, total is the list's length,
\* count the slice's length, hasMore true exactly when records follow the
\* slice, and a page past the end has count 0 and hasMore false.
C17_PageIsSlice ==
  \A r \in PageResponses :
    PageAsClaimed(r, pin.payload.gamesAll, SafePage(pin.page), SafePageSize(pin.pageSize))

\* the same for requests whose page and pageSize are not fractional
C17_WholeNumberPageIsSlice ==
  \A r \in PageResponses :
    (pin.page.k # "frac" /\ pin.pageSize.k # "frac") =>
      PageAsClaimed(r, pin.payload.gamesAll, SafePage(pin.page), SafePageSize(pin.pageSize))


MatureChecked == pin.k = "text" /\ pout.k = "matched"

\* a letter outside a-z, such as an accented one
OtherLetters == {"é"}

IsLetterOrDigit(c) == IsAlnum(c) \/ c \in OtherLetters

\* k is a whole token of h: a maximal run of characters that satisfy inToken
IsWholeToken(h, k, inToken(_)) ==
  /\ k # <<>>
  /\ \A x \in 1..Len(k) : inToken(k[x])
  /\ \E i \in 1..(Len(h) - Len(k) + 1) :
       /\ \A x \in 1..Len(k) : h[i + x - 1] = k[x]
       /\ (i = 1 \/ ~inToken(h[i - 1]))
       /\ (i + Len(k) > Len(h) \/ ~inToken(h[i + Len(k)]))

\* some short keyword is a whole token of the lower-cased text, or some longer
\* keyword a substring of the lower-cased, whitespace-collapsed text
KeywordMatch(text, keywords, inToken(_)) ==
  \E n \in 1..Len(keywords) :
    LET k == normalizeText(keywords[n])
    IN /\ k # <<>>
       /\ \/ Len(k) <= ShortKeywordLen /\ IsWholeToken(ToLowerCase(text), k, inToken)
          \/ Len(k) > ShortKeywordLen /\ Includes(CollapseSpaces(ToLowerCase(text)), k)

\* C18: containsMatureKeyword(text) is true if and only if some keyword of at
\* most 4 characters equals a whole alphanumeric token of the lower-cased text
\* or some longer keyword is a substring of the lower-cased,
\* whitespace-collapsed text; a short keyword inside a longer word never matches.
C18_MatureKeywordMatching ==
  MatureChecked => (pout.result <=> KeywordMatch(pin.text, pin.keywords, IsLetterOrDigit))

\* the same with tokens taken as maximal runs of a-z and 0-9 only
C18_AsciiTokenMatching ==
  MatureChecked => (pout.result <=> KeywordMatch(pin.text, pin.keywords, IsAlnum))

\* "sussex" against the default keywords: "sex" is inside it and nothing matches
C18_Witness ==
  /\ MatureChecked
  /\ pin.text = <<"s","u","s","s","e","x">>
  /\ pin.keywords = DEFAULT_MATURE_KEYWORDS
  /\ ~pout.result


\* the characters in the order of their code units
CodeOrder ==
  <<" ", "-">> \o <<"0","1","2","3","4","5","6","7","8","9">> \o UPPER \o LOWER

CodeOf(c) == CHOOSE i \in 1..Len(CodeOrder) : CodeOrder[i] = c

\* a < b for strings, as Array.prototype.sort compares them
RECURSIVE StrLT(_, _)
StrLT(a, b) ==
  IF b = <<>> THEN FALSE
  ELSE IF a = <<>> THEN TRUE
  ELSE IF Head(a) = Head(b) THEN StrLT(Tail(a), Tail(b))
  ELSE CodeOf(Head(a)) < CodeOf(Head(b))

\* ascending with no name twice
SortedNoDuplicates(names) ==
  \A i \in 1..Len(names), j \in 1..Len(names) : i < j => StrLT(names[i], names[j])

\* C19: in every record of the list each of tagsByType.genres, themes, modes
\* and perspectives is sorted and free of duplicates, whatever the order and
\* duplication of the names upstream.
C19_TagListsSorted ==
  Ranked =>
    \A i \in 1..Len(pout.games) :
      LET t == pout.games[i].tagsByType
      IN /\ SortedNoDuplicates(t.genres)
         /\ SortedNoDuplicates(t.themes)
         /\ SortedNoDuplicates(t.modes)
         /\ SortedNoDuplicates(t.perspectives)

\* the part that holds: no name twice, compared without regard to case
C19_TagListsDeduplicated ==
  Ranked =>
    \A i \in 1..Len(pout.games) :
      \A f \in {"genres", "themes", "modes", "perspectives"} :
        LET names == pout.games[i].tagsByType[f]
        IN \A a \in 1..Len(names), b \in 1..Len(names) :
             a # b => ToLowerCase(names[a]) # ToLowerCase(names[b])


\* a handler that attempted its write and has returned
WriteDone == pin.k = "write" /\ pout.k = "handler" /\ pout.pc = "done" /\ pout.sdk # "none"

FailureShown == \E i \in 1..Len(pout.notices) : pout.notices[i] = FailureNotice(pin.op)

\* C20: when the SDK write fails a REST fallback write is attempted once; a
\* failure notice is shown only if both the SDK write and the REST fallback
\* have failed; if either succeeds the collection:changed event is dispatched
\* and the success notice shown.
C20_WriteFallback ==
  WriteDone =>
    /\ (pout.sdk = "failed" => pout.rest # "none" /\ pout.restWrites <= 1)
    /\ (FailureShown => pout.sdk = "failed" /\ pout.rest = "failed")
    /\ (pout.sdk = "ok" \/ pout.rest = "ok"
          => /\ pout.events = 1
             /\ ~IsNull(SuccessNotice(pin.op))
             /\ pout.notices = <<Val(SuccessNotice(pin.op))>>)

\* the fallback part alone, for removing a game and setting a rating
C20_FallbackOfRemoveAndRating ==
  (WriteDone /\ HasRestFallback(pin.op)) =>
    /\ (pout.sdk = "failed" => pout.rest # "none" /\ pout.restWrites <= 1)
    /\ (FailureShown <=> pout.sdk = "failed" /\ pout.rest = "failed")
    /\ (pout.sdk = "ok" \/ pout.rest = "ok" => pout.events = 1 /\ ~FailureShown)

----------------------------------------------------------------------------
(* Claims C21 - C30 *)

\* call s passes the results cache in this step and calls getAccessToken
CallsGetAccessToken(s) == calls[s].pc = "idle" /\ calls'[s].pc \notin {"idle", "done"}

\* C22: getAccessToken returns the cached token without a token request if and
\* only if a token is cached and expires more than the margin from now; a token
\* answer replaces the cached token and its expiry; no catalog query is sent
\* with a cached token that was within the margin when the request began.
C22_TokenCache ==
  [][ \A s \in Slots :
        /\ CallsGetAccessToken(s) =>
             /\ calls'[s].tokenRequests = 0
                  <=> (~IsNull(cachedToken) /\ cachedTokenExpiresAt - now > TOKEN_MARGIN)
             /\ calls'[s].tokenRequests = 0 =>
                  /\ cachedToken' = cachedToken
                  /\ cachedTokenExpiresAt' = cachedTokenExpiresAt
                  /\ (calls'[s].pc = "query" => calls'[s].accessToken = cachedToken)
        /\ (calls[s].pc = "token" /\ calls'[s].pc = "query") =>
             /\ cachedToken' = calls'[s].accessToken
             /\ cachedTokenExpiresAt' = Val(cachedToken').expiresAt
        /\ (calls[s].pc # "query" /\ calls'[s].pc = "query"
              /\ calls'[s].tokenRequests = 0) =>
             Val(calls'[s].accessToken).expiresAt - calls'[s].startedAt > TOKEN_MARGIN ]_vars

\* a later request sends its catalog query with the token an earlier one cached
C22_Witness ==
  \E s \in Slots :
    /\ calls[s].pc = "query"
    /\ calls[s].tokenRequests = 0
    /\ calls[s].startedAt > 0
    /\ calls[s].accessToken = cachedToken


\* call s fails in this step
Fails(s) == calls[s].pc # "failed" /\ calls'[s].pc = "failed"

\* C25: a call that fails (token failure, failure of any query of its round,
\* unsupported mode) leaves the results cache as it was; the cache changes
\* only in the step in which a call succeeds, and only under that call's key.
C25_FailureLeavesCache ==
  [][ /\ (\E s \in Slots : Fails(s)) => cachedResults' = cachedResults
      /\ cachedResults' # cachedResults =>
           \E s \in Slots :
             /\ calls[s].pc = "query" /\ calls'[s].pc = "done"
             /\ \A k \in DOMAIN cachedResults :
                  k # calls[s].key =>
                    k \in DOMAIN cachedResults' /\ cachedResults'[k] = cachedResults[k] ]_vars

\* one of the three queries of a top-games round failed while the cache held
\* another key's entry, and nothing was stored for the failed key
C25_Witness ==
  \E s \in Slots :
    /\ calls[s].pc = "failed"
    /\ calls[s].queryRequests = 3
    /\ cachedResults # <<>>
    /\ calls[s].key \notin DOMAIN cachedResults

\* a call failed for its unsupported mode after the token was obtained
C25_WitnessUnsupportedMode ==
  \E s \in Slots :
    /\ calls[s].pc = "failed"
    /\ calls[s].args.mode = "trending"
    /\ calls[s].tokenRequests = 1
    /\ calls[s].key \notin DOMAIN cachedResults


\* call s is answered from the cache in this step
IsHit(s) == calls[s].pc = "idle" /\ calls'[s].pc = "done"

\* C26: a request answered from a fresh entry sends no token request and no
\* catalog query and leaves the results cache and the token cache unchanged;
\* the entry keeps its fetchedAt and cachedAt.
C26_HitHasNoEffect ==
  [][ \A s \in Slots :
        IsHit(s) =>
          /\ calls'[s].tokenRequests = 0 /\ calls'[s].queryRequests = 0
          /\ cachedResults' = cachedResults
          /\ cachedToken' = cachedToken
          /\ cachedTokenExpiresAt' = cachedTokenExpiresAt
          /\ nFetched' = nFetched
          /\ Val(calls'[s].response).body.fetchedAt
               = cachedResults[calls'[s].key].payload.fetchedAt ]_vars

\* a request answered later than its entry was stored, with no upstream request
C26_Witness ==
  \E s \in Slots :
    /\ Done(s)
    /\ UpstreamRequests(calls[s]) = 0
    /\ calls[s].startedAt > Val(calls[s].servedFrom).cachedAt
    /\ cachedResults[calls[s].key] = Val(calls[s].servedFrom)


Routed == pin.k = "url" /\ pout.k = "routed"

\* C24: the route passes hideMature = false only when the hideMature parameter
\* is exactly "0"; when it is absent or anything else the request is processed
\* with the mature filter on and no record matching a mature keyword is returned.
C24_HideMatureByDefault ==
  Routed =>
    /\ pout.args.hideMature = FALSE <=> pin.url.hideMature = Some(<<"0">>)
    /\ pin.url.hideMature # Some(<<"0">>) =>
         \A i \in 1..Len(pout.response.body.games) :
           ~MatureKeywordMatches(pout.response.body.games[i])

\* hideMature=false: the mature record of the answer is left out, the other kept
C24_Witness ==
  /\ Routed
  /\ pin.url.hideMature = Some(<<"f","a","l","s","e">>)
  /\ pin.answer = <<gSexQuest, gZelda>>
  /\ Len(pout.response.body.games) = 1
  /\ pout.response.body.games[1].id = gZelda.id

\* hideMature=0: the mature record is returned
C24_WitnessOff ==
  /\ Routed
  /\ pin.url.hideMature = Some(<<"0">>)
  /\ \E i \in 1..Len(pout.response.body.games) :
       pout.response.body.games[i].id = gSexQuest.id


FormHandled == pin.k = "form" /\ pout.k = "ui" /\ pout.handler # "none"

\* a dot-atom: non-empty runs of characters other than space, @ and dot,
\* separated by single dots
IsDotAtom(t) ==
  /\ t # <<>>
  /\ t[1] # "." /\ t[Len(t)] # "."
  /\ \A x \in 1..Len(t) : IsEmailChar(t[x])
  /\ \A x \in 1..(Len(t) - 1) : ~(t[x] = "." /\ t[x + 1] = ".")

\* local@domain with both parts dot-atoms and a dot in the domain
WellFormedEmail(t) ==
  \E i \in 1..Len(t) :
    /\ t[i] = "@"
    /\ IsDotAtom(SubSeq(t, 1, i - 1))
    /\ IsDotAtom(SubSeq(t, i + 1, Len(t)))
    /\ \E x \in (i + 1)..Len(t) : t[x] = "."

\* nothing was sent and only the error or the notice was set
OnlyInlineError ==
  /\ pout.authCalls = 0 /\ pout.storeCalls = 0
  /\ ~pout.busy
  /\ pout.pc = "returned"
  /\ (pout.error # "" \/ ~IsNull(pout.notice))

\* C21: a sign-in or create-account attempt with an empty or malformed email,
\* an empty password or one shorter than 8 characters, and a settings save
\* with a username longer than 24 characters, make no authentication or
\* document-store call; they set the inline error or notice and leave busy false.
C21_ValidationBeforeNetwork ==
  FormHandled =>
    /\ ( /\ pout.handler \in {"signIn", "createAccount"}
         /\ \/ Trim(pin.email) = <<>>
            \/ ~WellFormedEmail(Trim(pin.email))
            \/ Len(pin.password) < MinPassword )
        => OnlyInlineError
    /\ (pout.handler = "saveSettings" /\ Len(Trim(pin.username)) > MaxUsername)
        => OnlyInlineError

\* the same with "malformed" read as: not of the shape x@y.z, where x, y and z
\* are non-empty and free of whitespace and @
C21_ValidationByPattern ==
  FormHandled =>
    /\ ( /\ pout.handler \in {"signIn", "createAccount"}
         /\ \/ Trim(pin.email) = <<>>
            \/ ~validateEmail(pin.email)
            \/ Len(pin.password) < MinPassword )
        => OnlyInlineError
    /\ (pout.handler = "saveSettings" /\ Len(Trim(pin.username)) > MaxUsername)
        => OnlyInlineError

\* a create-account attempt with a good email and a 7-character password
C21_Witness ==
  /\ FormHandled
  /\ pout.handler = "createAccount"
  /\ pin.email = <<"a","@","b",".","c">>
  /\ Len(pin.password) = MinPassword - 1
  /\ pout.error = "Password must be at least 8 characters."
  /\ pout.authCalls = 0

\* a settings save with a 25-character username
C21_WitnessUsername ==
  /\ FormHandled
  /\ pout.handler = "saveSettings"
  /\ pin.signedIn
  /\ Len(Trim(pin.username)) = MaxUsername + 1
  /\ pout.notice = Some("Username")
  /\ pout.storeCalls = 0


TagState == client.k = "tags"

PendingFetches == {f \in DOMAIN client.fetches : client.fetches[f] = "pending"}

\* caller c calls fetchTagUniverse in this step
Calls(c) == client.callers[c].pc = "idle" /\ client'.callers[c].pc # "idle"

StartsFetch == Len(client'.fetches) = Len(client.fetches) + 1

\* C27: at most one tag-universe fetch is in flight; a call made while one is
\* pending shares its promise; the stored promise is cleared once the fetch has
\* settled and its starter has resumed, on success and on failure; a failed
\* fetch stores no value and a later call starts a new fetch; a stored value
\* younger than the TTL is returned without a request.
C27_OneFetchInFlight ==
  /\ [](TagState =>
          /\ Cardinality(PendingFetches) <= 1
          /\ \A f \in PendingFetches : client.cache.promise = Some(f)
          /\ ~IsNull(client.cache.promise) =>
               \E c \in TagCallers :
                 /\ client.callers[c].pc = "owner"
                 /\ client.callers[c].promise = Val(client.cache.promise))
  /\ [][ TagState =>
           \A c \in TagCallers :
             /\ (Calls(c) /\ PendingFetches # {}) =>
                  /\ ~StartsFetch
                  /\ client'.callers[c].pc = "sharing"
                  /\ client'.callers[c].promise \in PendingFetches
             /\ (Calls(c) /\ TagValueFresh(client.cache, client.now)) =>
                  /\ ~StartsFetch
                  /\ client'.callers[c].pc = "returned"
                  /\ client'.callers[c].result = client.cache.value
                  /\ client'.cache = client.cache
             /\ (Calls(c) /\ ~TagValueFresh(client.cache, client.now)
                   /\ IsNull(client.cache.promise)) => StartsFetch
             /\ (client.callers[c].pc = "owner" /\ client'.callers[c].pc # "owner") =>
                  /\ IsNull(client'.cache.promise)
                  /\ client'.callers[c].pc = "threw" =>
                       /\ client'.cache.value = client.cache.value
                       /\ client'.cache.fetchedAt = client.cache.fetchedAt ]_vars

\* two callers wait for the one fetch that was started
C27_Witness ==
  /\ TagState
  /\ Len(client.fetches) = 1 /\ client.fetches[1] = "pending"
  /\ \E a \in TagCallers, b \in TagCallers :
       /\ client.callers[a].pc = "owner" /\ client.callers[b].pc = "sharing"
       /\ client.callers[b].promise = client.callers[a].promise

\* the first fetch failed, nothing was stored, and a later call started a second
C27_WitnessRetry ==
  /\ TagState
  /\ Len(client.fetches) = 2
  /\ client.fetches[1] = "rejected" /\ client.fetches[2] = "pending"
  /\ IsNull(client.cache.value)


SettingsState == client.k = "settings"

\* C28: the username and settings useUserSettings returns are the defaults or
\* come from a snapshot of the document of the uid that is signed in now.
C28_NoCrossUserData ==
  SettingsState =>
    \/ UseUserSettings.username = "" /\ UseUserSettings.settings = DEFAULT_SETTINGS
    \/ client.snapshotState.uid = client.uid

\* what does hold: once loading is false, the values are the current user's
C28_SettledDataIsOwn ==
  (SettingsState /\ ~IsNull(client.uid) /\ ~UseUserSettings.loading) =>
    \E d \in UserDocs(Val(client.uid)) :
      \/ client.snapshotState = SnapshotStateOf(Val(client.uid), d)
      \/ client.snapshotState =
           [uid |-> client.uid, username |-> "", settings |-> DEFAULT_SETTINGS]

\* bob is signed in and the hook returns ann's username
C28_LeakReached ==
  /\ SettingsState
  /\ client.uid = Some("bob")
  /\ UseUserSettings.loading
  /\ UseUserSettings.username = "ann"


ModalSettled == client.k = "modal" /\ client.issued # <<>> /\ client.outstanding = {}

LastIssued == client.issued[Len(client.issued)]

IsSuffix(t, u) == Len(t) <= Len(u) /\ SubSeq(u, Len(u) - Len(t) + 1, Len(u)) = t

\* C29: once every response has arrived, the games, hasMore and page shown are
\* those of the most recently issued request, whatever the order of arrival.
C29_LatestRequestWins ==
  (ModalSettled /\ client.outcome[Len(client.issued)] = "ok") =>
    /\ client.page = LastIssued.nextPage
    /\ client.hasMore = ModalAnswer(LastIssued).hasMore
    /\ IF LastIssued.append
       THEN IsSuffix(ModalAnswer(LastIssued).games, client.games)
       ELSE client.games = ModalAnswer(LastIssued).games

\* what does hold: the display is that of the response that arrived last
C29_LastArrivalWins ==
  [][ (client.k = "modal" /\ client'.outstanding # client.outstanding
        /\ Cardinality(client'.outstanding) < Cardinality(client.outstanding)) =>
       \E r \in client.outstanding \ client'.outstanding :
         IF client'.outcome[r] = "ok"
         THEN /\ client'.page = client.issued[r].nextPage
              /\ client'.hasMore = ModalAnswer(client.issued[r]).hasMore
              /\ IsSuffix(ModalAnswer(client.issued[r]).games, client'.games)
         ELSE client'.games = <<>> /\ ~client'.hasMore ]_vars

\* the rating was committed at 70 last, both responses arrived, and the list
\* shown is the one for rating 0
C29_StaleListShown ==
  /\ ModalSettled
  /\ Len(client.issued) = 2
  /\ LastIssued.min = 70 /\ client.minRating = 70
  /\ client.outcome = <<"ok", "ok">>
  /\ client.games = <<1, 2>> /\ client.hasMore


CollectionState == client.k = "collection"

\* the documents of the collection that are entries for game g
EntriesOf(docs, g) ==
  {d \in DocIds : ~IsNull(docs[d]) /\ (d = GameDocId(g) \/ Val(docs[d]).id = Some(g))}

\* handler i returns in this step
Finishes(i) == client.ops[i].pc # "idle" /\ client'.ops[i].pc = "idle"

\* handleAdd is called for game g in this step
AddCalled(g) ==
  /\ client'.started = client.started + 1
  /\ \/ client'.ops = client.ops /\ client'.last.kind = "add" /\ client'.last.game = g
     \/ \E i \in DOMAIN client.ops :
          /\ client.ops[i].pc = "idle"
          /\ client'.ops[i].kind = "add" /\ client'.ops[i].game = g

\* C30: an Add of a game whose entry is stored writes nothing and shows
\* "Already added"; no Add changes an existing entry.
C30_AddNeverOverwrites ==
  [][ CollectionState =>
       /\ \A g \in Games :
            (AddCalled(g) /\ ~IsNull(store.docs[GameDocId(g)])) =>
              client'.ops = client.ops /\ client'.last.notice = "Already added"
       /\ \A i \in DOMAIN client.ops :
            (client.ops[i].kind = "add" /\ Finishes(i)
               /\ ~IsNull(store.docs[GameDocId(client.ops[i].game)])) =>
              store'.docs = store.docs ]_vars

\* what does hold: an Add of a game in the locally held set writes nothing
C30_AddChecksLocalSet ==
  [][ CollectionState =>
       \A g \in Games :
         (AddCalled(g) /\ GameDocId(g) \in client.collectionIds) =>
           /\ client'.ops = client.ops /\ client'.last.notice = "Already added"
           /\ store' = store ]_vars

\* an Add reported "Added" after writing over an entry that existed
C30_EntryOverwritten ==
  /\ CollectionState
  /\ client.last.kind = "add" /\ client.last.notice = "Added"
  /\ client.last.existed

\* C23: the collection holds at most one entry per game, and when a Remove
\* succeeds the entry of that game is absent.
C23_OneEntryPerGame ==
  /\ [](CollectionState => \A g \in Games : Cardinality(EntriesOf(store.docs, g)) <= 1)
  /\ [][ CollectionState =>
           \A i \in DOMAIN client.ops :
             (client.ops[i].kind = "remove" /\ Finishes(i)
                /\ client'.last.notice = "Removed") =>
               EntriesOf(store'.docs, client.ops[i].game) = {} ]_vars

\* after an Add and a Remove the entry of the game is gone while the entry of
\* the other game is stored
C23_Witness ==
  /\ CollectionState
  /\ client.started = MaxOps /\ store.clock > MaxOps
  /\ client.last.kind = "remove" /\ client.last.notice = "Removed"
  /\ client.last.existed
  /\ EntriesOf(store.docs, client.last.game) = {}
  /\ \E h \in Games \ {client.last.game} : EntriesOf(store.docs, h) # {}

\* a Remove of a stored entry went through
C23_WitnessRemoved ==
  /\ CollectionState
  /\ client.last.kind = "remove" /\ client.last.notice = "Removed"
  /\ client.last.existed
  /\ IsNull(store.docs[GameDocId(client.last.game)])

====
